---- MODULE Spec2Model ----
(***************************************************************************)
(* A model of the ingest pipeline of index-repo: the permit pools of the   *)
(* fetcher (http.rs, sync.rs), the per-package scheduler and the mutex     *)
(* around the Store connection (bin/index-repo.rs), the Store functions    *)
(* (db.rs), the cpio reader (cpio.rs), fetch_file with the decoders        *)
(* (decoders.rs, hashes.rs, fs.rs), the RPM reader (rpm.rs), the package   *)
(* query (db.rs get_packages), the repomd parser (repomd.rs), blocking     *)
(* (tokio.rs) and the metrics lock (metrics.rs).  The specifications       *)
(* share the module's variables; each leaves the variables of the other    *)
(* components at their initial values.                                     *)
(*   SpecSem   callers of checked_fetch and semaphore_acquire              *)
(*   Spec      index_repo: loading, then buffer_unordered(jobs) over       *)
(*             index_package                                               *)
(*   SpecCpio  a walk over one cpio stream                                 *)
(*   SpecDb    calls of the Store functions on one connection              *)
(*   SpecFetch calls of fetch_file on a set of local files                 *)
(*   SpecRpm   read_lead and two read_full_header calls, get_string_tag    *)
(*   SpecXz    decode_chunk over the chunks of one body                    *)
(*   SpecLike  one get_packages call on a primary catalog                  *)
(*   SpecRepomd    one Document::parse call on a repomd document           *)
(*   SpecBlocking  calls of blocking(f) on a pool with other tasks         *)
(*   SpecLocks     pipelines and the monitor over permits and locks        *)
(* SpecCpioFair, SpecXzFair and SpecLocksFair add the fairness under which *)
(* termination is checked.                                                 *)
(***************************************************************************)
EXTENDS Integers, Sequences, FiniteSets, TLC

\* ------------------------------------------------------------------ bounds
MaxJobs == 2
NumClients == 3
MaxChunks == 2
NumPackages == 3
MaxEntries == 2
MaxShortReads == 1
MaxDbCalls == 3
MaxFetchFileCalls == 1
MaxIndexEntries == 2
MaxStoreSize == 2
MaxChunkLen == 2
MaxXzOutput == 3
XzBufCapacity == 2
MaxWildcardLen == 2
MaxNameLen == 2
MaxDataEntries == 2
MaxBlocking == 2
MaxBlockingCalls == 2

\* ----------------------------------------------------------------- helpers
Min(a, b) == IF a < b THEN a ELSE b

VARIABLES
    jobs,         \* the -j/--jobs value
    httpAvail,    \* permits available in the HTTP semaphore
    ioAvail,      \* permits available in the I/O semaphore
    httpWaiters,  \* the queue of the HTTP semaphore: callers whose Permit was queued
    ioWaiters,    \* the queue of the I/O semaphore
    cpc,          \* per caller: where it is in checked_fetch / semaphore_acquire
    httpPermit,   \* per caller: state of the Permit of checked_fetch
    ioPermit,     \* per caller: state of the Permit inside its SemaphoreGuard
    chunksLeft,   \* per caller: chunks of the response body not yet consumed
    started,      \* packages the scheduler has pulled from the package list
    ppc,          \* per package: where its index_package future is
    entryIdx,     \* per package: cpio entries walked so far
    symIdx,       \* per package: dynamic symbols of the current entry persisted
    connOwner,    \* the pipeline that holds the Mutex<SqliteConnection>, or 0
    pkgId,        \* per package: the rowid persist_package returned, or 0
    fileId,       \* per package: the rowid persist_file returned last, or 0
    pkgRows,      \* table packages: row i is <<package>>
    fileRows,     \* table files: rows [package_id, entry]
    symRows,      \* table elf_symbols: rows [file_id, sym]
    result,       \* what index_repo returns: "running", "ok" or "err"
    arch,         \* the cpio archive: a sequence of entries [name, filesize]
    slen,         \* length of the cpio stream (a truncated stream is shorter)
    off,          \* bytes the source has handed out so far
    pos,          \* the pos value threaded through the cpio calls
    wpc,          \* where the walk is
    entry,        \* the Entry read_entry_start returned: header, name, peek
    data,         \* the body read_entry_data returned for the entry being indexed
    remaining,    \* skip_entry_data: its local `remaining`
    shortLeft,    \* short reads the source may still answer with
    hdrOffs,      \* stream offsets at which read_header started reading
    walkFiles,    \* names of the File rows the walk has written
    last,         \* the last cpio call: [op, ok, pos0, off0], and the parity of the reads it issued
    repoRows,     \* table repos: rows [uri, primary_db]
    strRows,      \* table strings: row i is the name with id i
    dbLast,       \* the last call of a function of db.rs: what it was given and returned
    dbCalls,      \* calls of functions of db.rs made so far
    repoId,       \* the rowid persist_repo returned to index_repo, or 0
    skipped,      \* <<package, entry, symbol>> whose persist call failed and was logged
    files,        \* the local files: per path, absent, unreadable or its bytes
    fpc,          \* where fetch_file is
    fargs,        \* the href and open_checksum fetch_file was called with
    fsAtCall,     \* the local files as they were when fetch_file was called
    fetched,      \* GET requests the current fetch_file call has issued
    bodyLeft,     \* chunks of the response body not yet decoded
    xzStream,     \* the xz decoder of decode_response: where it is in the stream
    fres,         \* what fetch_file returned last
    cfLast,       \* the last checked_fetch of fetch_file: the status and the result
    fcalls,       \* calls of fetch_file made so far
    rpc,          \* where the RPM reader is
    rpos,         \* the pos value threaded through the rpm.rs calls
    rconsumed,    \* bytes the RPM reader has taken from the source
    rheader,      \* the Header read_header returned last
    indexEntries, \* the index_entries map of the header being read
    indexLeft,    \* index entries of the header still to be read
    rstore,       \* the store of the header read last
    hdrLog,       \* per read_full_header call: pos given, offset of the header, what was read, pos returned
    tagLast,      \* the last get_string_tag call and its result
    xpc,          \* where decode_chunk is
    xzTotalIn,    \* xz.total_in(): input bytes the decoder has consumed
    xzTotalOut,   \* output bytes the decoder has produced
    xzEnded,      \* the decoder has seen the end of the xz stream
    chunkLen,     \* chunk.len() of the chunk being decoded
    inAtCall,     \* xz.total_in() when decode_chunk was called
    endIn,        \* decode_chunk: its local `end`
    xbuf,         \* decode_chunk: its local `buf`
    xfile,        \* the output bytes written to the file, in order
    feed,         \* the last iteration of decode_chunk: where its slice began, total_in before and after, parity of the iterations
    xchunks,      \* chunks decode_chunk has been called with
    catalog,      \* the packages of the primary catalog: [pkgKey, arch, requires]
    gpLast,       \* the get_packages call: its filters, the LIKE patterns, its result
    repomdXml,    \* the repomd.xml document given to Document::parse
    parseLast,    \* the Document::parse call and its result
    loadPc,       \* where index_repo is before the pipelines: the next loading step
    loadErr,      \* the loading step index_repo failed at, or "none"
    bpc,          \* where the future of blocking(f) is: pending, returned or panicked
    fSlot,        \* blocking: its local `f` still holds the closure (Some)
    fRuns,        \* times the closure f was run
    fResult,      \* what f returns when it is run
    bres,         \* what blocking(f) returned
    blockingInUse, \* blocking sections of the pool that are taken
    onPool,       \* the future is polled on a worker of the thread pool
    polls,        \* polls of the future of blocking(f)
    bcalls,       \* calls of blocking made so far
    lpc,          \* per pipeline: the lock it waits for or holds
    metricsOwner, \* who holds the metrics lock: a pipeline, the monitor or 0
    monPc         \* where the monitor task is

semQueues == <<httpWaiters, ioWaiters>>
semVars == <<httpAvail, ioAvail, semQueues, cpc, httpPermit, ioPermit, chunksLeft>>
schedVars == <<started, ppc, entryIdx, symIdx, connOwner, pkgId, fileId,
               pkgRows, fileRows, symRows, result>>

cpioVars == <<arch, slen, off, pos, wpc, entry, data, remaining, shortLeft,
              hdrOffs, walkFiles, last>>

schedCtl == <<started, ppc, entryIdx, symIdx, connOwner, pkgId, fileId, result>>

dbVars == <<repoRows, strRows, dbLast, dbCalls>>

schedAux == <<repoId, skipped>>

fetchVars == <<files, fpc, fargs, fsAtCall, fetched, bodyLeft, xzStream, fres, cfLast, fcalls>>

rpmVars == <<rpc, rpos, rconsumed, rheader, indexEntries, indexLeft, rstore, hdrLog, tagLast>>

xzVars == <<xpc, xzTotalIn, xzTotalOut, xzEnded, chunkLen, inAtCall, endIn, xbuf, xfile,
            feed, xchunks>>

likeVars == <<catalog, gpLast>>

repomdVars == <<repomdXml, parseLast>>

loadVars == <<loadPc, loadErr>>

blockingVars == <<bpc, fSlot, fRuns, fResult, bres, blockingInUse, onPool, polls, bcalls>>

lockVars == <<lpc, metricsOwner, monPc>>

compVars == <<fetchVars, rpmVars, xzVars, likeVars, repomdVars, loadVars, blockingVars, lockVars>>

notBlocking == <<jobs, semVars, schedVars, cpioVars, dbVars, schedAux, fetchVars, rpmVars, xzVars,
                 likeVars, repomdVars, loadVars, lockVars>>

\* what a step of the lock model leaves alone, the locks apart
lockIdx == <<entryIdx, symIdx>>
lockFrame == <<jobs, semQueues, cpc, httpPermit, ioPermit, chunksLeft, started, ppc, pkgId,
               fileId, pkgRows, fileRows, symRows, result, cpioVars, dbVars, schedAux, fetchVars,
               rpmVars, xzVars, likeVars, repomdVars, loadVars, blockingVars>>

\* what a loading step of index_repo leaves alone
loadFrame == <<jobs, semVars, cpioVars, dbVars, schedAux, fetchVars, rpmVars, xzVars, likeVars,
               repomdVars, started, ppc, entryIdx, symIdx, connOwner, pkgId, fileId, pkgRows,
               fileRows, symRows, blockingVars, lockVars>>

notRepomd == <<jobs, semVars, schedVars, cpioVars, dbVars, schedAux, fetchVars, rpmVars, xzVars,
               likeVars, loadVars,
    blockingVars, lockVars>>

notFetch == <<jobs, semVars, schedVars, cpioVars, dbVars, schedAux, rpmVars, xzVars, likeVars, repomdVars, loadVars,
    blockingVars, lockVars>>

notRpm == <<jobs, semVars, schedVars, cpioVars, dbVars, schedAux, fetchVars, xzVars, likeVars, repomdVars, loadVars,
    blockingVars, lockVars>>

notLike == <<jobs, semVars, schedVars, cpioVars, dbVars, schedAux, fetchVars, rpmVars, xzVars, repomdVars, loadVars,
    blockingVars, lockVars>>

notXz == <<jobs, semVars, schedVars, cpioVars, dbVars, schedAux, fetchVars, rpmVars, likeVars, repomdVars, loadVars,
    blockingVars, lockVars>>

vars == <<jobs, semVars, schedVars, cpioVars, dbVars, schedAux, compVars>>

\* =================================================================
\* Permit pools: http.rs checked_fetch, sync.rs semaphore_acquire
\* =================================================================
Clients == 1..NumClients

\* Semaphore::new(jobs): both pools start with jobs permits.
SemaphoreNew(n) == n

\* Permit::new(): a permit that holds nothing.
PermitNew == "idle"

\* a poll_acquire that never waits
PollAcquireReady_NoWait(avail) == TRUE

\* permit.poll_acquire(&semaphore) is ready only when a permit is available.
PollAcquireReady(avail) == avail > 0

\* the semaphore after a successful poll_acquire
PollAcquire(avail) == avail - 1

\* permit.release(&semaphore): gives the permit back if this Permit holds
\* one; what becomes of the available permits when no waiter takes it.
PermitRelease(avail, st) == IF st = "acquired" THEN avail + 1 ELSE avail

\* defer!(permit.release(&semaphore)): runs when the scope of checked_fetch is
\* left, by return, by `?` or by the future being dropped.
DeferRelease(avail, st) == PermitRelease(avail, st)

\* impl Drop for SemaphoreGuard
SemaphoreGuardDrop(avail, st) == PermitRelease(avail, st)

\* The semaphore with its queue.  A Permit is "idle" when new, "waiting"
\* once a poll_acquire has found no permit and queued it, "assigned" when a
\* release has handed it a permit it has not yet been polled for, and
\* "acquired" after the poll that returned Ready.  A Permit whose release is
\* called while it waits gives up its interest and leaves its node in the
\* queue ("queued"), to be passed over.
\*
\* add_permits(1), called by release: the permit goes to the first waiter in
\* the queue that is still interested; nodes without interest are taken out
\* on the way; with no waiter left the permit is available again.
RECURSIVE AddPermits(_, _, _)
AddPermits(avail, waiters, permit) ==
    IF waiters = <<>>
    THEN [avail |-> PermitRelease(avail, "acquired"), waiters |-> <<>>, permit |-> permit]
    ELSE LET w == Head(waiters)
         IN IF permit[w] = "waiting"
            THEN [avail |-> avail, waiters |-> Tail(waiters),
                  permit |-> [permit EXCEPT ![w] = "assigned"]]
            ELSE AddPermits(avail, Tail(waiters), [permit EXCEPT ![w] = "none"])

\* permit.release(&semaphore) of caller c, as defer! and the Drop of
\* SemaphoreGuard call it: a permit that is held, or assigned, goes back
\* with add_permits; a Permit that waits gives up its interest; an idle one
\* has nothing to give.
ReleaseBy(avail, waiters, permit, c) ==
    CASE permit[c] \in {"acquired", "assigned"} ->
            AddPermits(avail, waiters, [permit EXCEPT ![c] = "none"])
      [] permit[c] = "waiting" ->
            [avail |-> avail, waiters |-> waiters, permit |-> [permit EXCEPT ![c] = "queued"]]
      [] OTHER ->
            [avail |-> avail, waiters |-> waiters, permit |-> [permit EXCEPT ![c] = "none"]]

\* a Permit that is dropped without release, as the bare Permit of
\* checked_fetch is when the future is dropped before defer! is reached
\* (http.rs, lines 24-25): Permit has no Drop, so a node that waits stays in
\* the queue as it is, and a permit that was assigned stays assigned.
DropBarePermit(permit, c) ==
    IF permit[c] \in {"waiting", "assigned"} THEN permit ELSE [permit EXCEPT ![c] = "none"]

SemInit ==
    /\ httpAvail = SemaphoreNew(jobs)
    /\ ioAvail = SemaphoreNew(jobs)
    /\ httpWaiters = <<>>
    /\ ioWaiters = <<>>
    /\ cpc = [c \in Clients |-> "idle"]
    /\ httpPermit = [c \in Clients |-> "none"]
    /\ ioPermit = [c \in Clients |-> "none"]
    /\ chunksLeft = [c \in Clients |-> 0]

\* checked_fetch is called: let mut permit = Permit::new(); then the future
\* waits in poll_fn(|| permit.poll_acquire(&semaphore)).
CheckedFetchCall(c) ==
    /\ cpc[c] = "idle"
    /\ cpc' = [cpc EXCEPT ![c] = "http_acquire"]
    /\ httpPermit' = [httpPermit EXCEPT ![c] = PermitNew]
    /\ UNCHANGED <<compVars, dbVars, schedAux, cpioVars, schedVars, jobs, httpAvail, ioAvail,
                   semQueues, ioPermit, chunksLeft>>

\* checked_fetch, lines 24-26: a poll of poll_acquire.  With a permit
\* available, or one assigned to this Permit since it was queued, it is
\* Ready: defer! is installed and client.get(uri) is awaited.  Otherwise the
\* Permit is queued and the future stays where it is.
CheckedFetchAcquire(c) ==
    /\ cpc[c] = "http_acquire"
    /\ httpPermit[c] \in {PermitNew, "assigned"}
    /\ IF httpPermit[c] = "assigned" \/ PollAcquireReady(httpAvail)
       THEN /\ httpAvail' = IF httpPermit[c] = "assigned" THEN httpAvail
                            ELSE PollAcquire(httpAvail)
            /\ httpPermit' = [httpPermit EXCEPT ![c] = "acquired"]
            /\ cpc' = [cpc EXCEPT ![c] = "http_get"]
            /\ UNCHANGED httpWaiters
       ELSE /\ httpPermit' = [httpPermit EXCEPT ![c] = "waiting"]
            /\ httpWaiters' = Append(httpWaiters, c)
            /\ UNCHANGED <<httpAvail, cpc>>
    /\ UNCHANGED <<compVars, dbVars, schedAux, cpioVars, schedVars, jobs, ioAvail, ioWaiters,
                   ioPermit, chunksLeft>>

\* client.get resolves: a transport error (`?`), a non-2xx status (bail!) or
\* a 2xx response whose body of n chunks is still unread.  In each case the
\* function returns and the deferred release runs.
CheckedFetchReturn(c) ==
    /\ cpc[c] = "http_get"
    /\ \E outcome \in {"transport_error", "bad_status", "ok"}, n \in 0..MaxChunks :
        /\ LET r == ReleaseBy(httpAvail, httpWaiters, httpPermit, c)
           IN /\ httpAvail' = r.avail
              /\ httpWaiters' = r.waiters
              /\ httpPermit' = r.permit
        /\ IF outcome = "ok"
           THEN /\ cpc' = [cpc EXCEPT ![c] = "body"]
                /\ chunksLeft' = [chunksLeft EXCEPT ![c] = n]
           ELSE /\ cpc' = [cpc EXCEPT ![c] = outcome]
                /\ UNCHANGED chunksLeft
    /\ UNCHANGED <<compVars, dbVars, schedAux, cpioVars, schedVars, jobs, ioAvail, ioWaiters, ioPermit>>

\* the caller consumes the response body (decode_response): one chunk
BodyChunk(c) ==
    /\ cpc[c] = "body"
    /\ chunksLeft[c] > 0
    /\ chunksLeft' = [chunksLeft EXCEPT ![c] = @ - 1]
    /\ UNCHANGED <<compVars, dbVars, schedAux, cpioVars, schedVars, jobs, httpAvail, ioAvail,
                   semQueues, cpc, httpPermit, ioPermit>>

\* the body stream ends
BodyEnd(c) ==
    /\ cpc[c] = "body"
    /\ chunksLeft[c] = 0
    /\ cpc' = [cpc EXCEPT ![c] = "fetched"]
    /\ UNCHANGED <<compVars, dbVars, schedAux, cpioVars, schedVars, jobs, httpAvail, ioAvail,
                   semQueues, httpPermit, ioPermit, chunksLeft>>

\* semaphore_acquire is called: the guard is built around Permit::new() and the
\* future waits in poll_fn(|| guard.permit.poll_acquire(..)).
SemaphoreAcquireCall(c) ==
    /\ cpc[c] = "idle"
    /\ cpc' = [cpc EXCEPT ![c] = "io_acquire"]
    /\ ioPermit' = [ioPermit EXCEPT ![c] = PermitNew]
    /\ UNCHANGED <<compVars, dbVars, schedAux, cpioVars, schedVars, jobs, httpAvail, ioAvail,
                   semQueues, httpPermit, chunksLeft>>

\* semaphore_acquire, lines 21-22: a poll of poll_acquire.  Ready: Ok(guard)
\* is returned to the caller.  Otherwise the Permit of the guard is queued.
SemaphoreAcquireReturn(c) ==
    /\ cpc[c] = "io_acquire"
    /\ ioPermit[c] \in {PermitNew, "assigned"}
    /\ IF ioPermit[c] = "assigned" \/ PollAcquireReady(ioAvail)
       THEN /\ ioAvail' = IF ioPermit[c] = "assigned" THEN ioAvail ELSE PollAcquire(ioAvail)
            /\ ioPermit' = [ioPermit EXCEPT ![c] = "acquired"]
            /\ cpc' = [cpc EXCEPT ![c] = "io_held"]
            /\ UNCHANGED ioWaiters
       ELSE /\ ioPermit' = [ioPermit EXCEPT ![c] = "waiting"]
            /\ ioWaiters' = Append(ioWaiters, c)
            /\ UNCHANGED <<ioAvail, cpc>>
    /\ UNCHANGED <<compVars, dbVars, schedAux, cpioVars, schedVars, jobs, httpAvail, httpWaiters,
                   httpPermit, chunksLeft>>

\* the caller leaves the scope that owns the guard
GuardScopeEnd(c) ==
    /\ cpc[c] = "io_held"
    /\ LET r == ReleaseBy(ioAvail, ioWaiters, ioPermit, c)
       IN /\ ioAvail' = r.avail
          /\ ioWaiters' = r.waiters
          /\ ioPermit' = r.permit
    /\ cpc' = [cpc EXCEPT ![c] = "guard_dropped"]
    /\ UNCHANGED <<compVars, dbVars, schedAux, cpioVars, schedVars, jobs, httpAvail, httpWaiters,
                   httpPermit, chunksLeft>>

\* The caller's future is dropped at one of its await points.  What is in
\* scope there is dropped with it: the scope guard of checked_fetch once it is
\* installed, the SemaphoreGuard from the moment it is built.  Where
\* checked_fetch awaits its permit the Permit is still bare: it is dropped
\* without release, and a node it has in the queue stays there.
Cancel(c) ==
    /\ cpc[c] \in {"http_acquire", "http_get", "body", "io_acquire", "io_held"}
    /\ LET h == CASE cpc[c] = "http_get" -> ReleaseBy(httpAvail, httpWaiters, httpPermit, c)
                  [] cpc[c] = "http_acquire" ->
                        [avail |-> httpAvail, waiters |-> httpWaiters,
                         permit |-> DropBarePermit(httpPermit, c)]
                  [] OTHER -> [avail |-> httpAvail, waiters |-> httpWaiters, permit |-> httpPermit]
           i == IF cpc[c] \in {"io_acquire", "io_held"}
                THEN ReleaseBy(ioAvail, ioWaiters, ioPermit, c)
                ELSE [avail |-> ioAvail, waiters |-> ioWaiters, permit |-> ioPermit]
       IN /\ httpAvail' = h.avail /\ httpWaiters' = h.waiters /\ httpPermit' = h.permit
          /\ ioAvail' = i.avail /\ ioWaiters' = i.waiters /\ ioPermit' = i.permit
    /\ cpc' = [cpc EXCEPT ![c] =
                 CASE cpc[c] = "http_get" -> "cancelled_in_get"
                   [] cpc[c] = "io_held" -> "cancelled_with_guard"
                   [] OTHER -> "cancelled"]
    /\ UNCHANGED <<compVars, dbVars, schedAux, cpioVars, schedVars, jobs, chunksLeft>>

\* a caller whose call has returned makes another call later
NextCall(c) ==
    /\ cpc[c] \in {"transport_error", "bad_status", "fetched", "guard_dropped"}
    /\ cpc' = [cpc EXCEPT ![c] = "idle"]
    /\ UNCHANGED <<compVars, dbVars, schedAux, cpioVars, schedVars, jobs, httpAvail, ioAvail,
                   semQueues, httpPermit, ioPermit, chunksLeft>>

\* =================================================================
\* Store: db.rs, and persist_string / persist_elf_symbol of bin/index-repo.rs.
\* A table is the sequence of its rows; the rowid of a row is its index.  The
\* functions take &SqliteConnection, so the calls on a connection follow one
\* another; a call is one step, with one outcome for each place it can fail.
\* =================================================================
\* diesel::insert_into(table).values(row).execute(conn)
InsertRow(table, row) == Append(table, row)

\* table.filter(and_all![columns]): the rowids of the rows whose columns equal
\* those of row.  .limit(1) without an ORDER BY yields any one of them.
RowIds(table, row) == {i \in 1..Len(table) : table[i] = row}

\* a macro that returns the rowid the next insert will get
InsertIntoReturningRowid_OnePast(table, row) ==
    {[ok |-> FALSE, table |-> table, rowid |-> 0],
     [ok |-> TRUE, table |-> Append(table, row), rowid |-> Len(table) + 2]}

\* insert_into_returning_rowid!: the insert can fail, the query after it can
\* fail; otherwise the rowid the query yields is returned.
InsertIntoReturningRowid(table, row) ==
    LET inserted == InsertRow(table, row)
    IN {[ok |-> FALSE, table |-> table, rowid |-> 0],
        [ok |-> FALSE, table |-> inserted, rowid |-> 0]}
       \cup {[ok |-> TRUE, table |-> inserted, rowid |-> i] : i \in RowIds(inserted, row)}

\* a persist_repo that overwrites the row of a uri that is stored
PersistRepo_Upsert(table, uri, primary_db) ==
    IF \E i \in 1..Len(table) : table[i].uri = uri
    THEN LET i == CHOOSE k \in 1..Len(table) : table[k].uri = uri
         IN {[ok |-> TRUE, rowid |-> i,
              table |-> [table EXCEPT ![i] = [uri |-> uri, primary_db |-> primary_db]]]}
    ELSE InsertIntoReturningRowid(table, [uri |-> uri, primary_db |-> primary_db])

\* persist_repo on the repos table, whose uri is UNIQUE: the insert of a uri
\* that is stored fails
PersistRepo(table, uri, primary_db) ==
    IF \E i \in 1..Len(table) : table[i].uri = uri
    THEN {[ok |-> FALSE, table |-> table, rowid |-> 0]}
    ELSE InsertIntoReturningRowid(table, [uri |-> uri, primary_db |-> primary_db])

\* the set of names of a symbol list: HashSet::from_iter(symbols.iter().map(|x| x.0))
NamesOf(symbols) == {symbols[i] : i \in 1..Len(symbols)}

\* the orders in which a HashSet can be iterated
RECURSIVE Orders(_)
Orders(S) ==
    IF S = {} THEN {<<>>}
    ELSE UNION {{<<x>> \o q : q \in Orders(S \ {x})} : x \in S}

\* a lookup that finds no row
StringRowsNamed_None(table, strings) == {}

\* query_strings: strings::table.filter(strings::name.eq_any(chunk))
StringRowsNamed(table, strings) == {i \in 1..Len(table) : table[i] \in strings}

\* query_strings(conn, &mut strings, &mut mappings): the query can fail; each
\* row loaded takes its name out of strings and enters mappings, and a row
\* whose name is no longer in strings fails the call.  (One chunk: the lists
\* here are far shorter than 999 names.)
QueryStrings(table, strings, mappings) ==
    LET rows == StringRowsNamed(table, strings)
        found == {table[i] : i \in rows}
        unknown == \E i, j \in rows : i # j /\ table[i] = table[j]
    IN {[ok |-> FALSE, strings |-> strings, mappings |-> mappings],
        IF unknown
        THEN [ok |-> FALSE, strings |-> strings, mappings |-> mappings]
        ELSE [ok |-> TRUE, strings |-> strings \ found,
              mappings |-> [n \in found |-> CHOOSE i \in rows : table[i] = n] @@ mappings]}

\* persist_strings: the multi-row insert of the names still in strings; it
\* stores all of them, in the order the set is iterated, or fails
InsertStrings(table, strings) ==
    {[ok |-> FALSE, table |-> table]}
    \cup {[ok |-> TRUE, table |-> table \o q] : q \in Orders(strings)}

\* a second pass whose leftovers are not looked at
SecondPassResult_Unchecked(q) == [ok |-> TRUE, mappings |-> q.mappings]

\* persist_strings, lines 205-210: after the second query_strings
SecondPassResult(q) ==
    IF ~q.ok \/ q.strings # {}
    THEN [ok |-> FALSE, mappings |-> <<>>]
    ELSE [ok |-> TRUE, mappings |-> q.mappings]

\* persist_strings(conn, strings): every outcome [ok, table, mappings]
PersistStrings(table, strings) ==
    UNION {
        IF ~q1.ok THEN {[ok |-> FALSE, table |-> table, mappings |-> <<>>]}
        ELSE IF q1.strings = {}
        THEN {[ok |-> TRUE, table |-> table, mappings |-> q1.mappings]}
        ELSE UNION {
            IF ~ins.ok THEN {[ok |-> FALSE, table |-> table, mappings |-> <<>>]}
            ELSE {[ok |-> SecondPassResult(q2).ok, table |-> ins.table,
                   mappings |-> SecondPassResult(q2).mappings]
                  : q2 \in QueryStrings(ins.table, q1.strings, q1.mappings)}
            : ins \in InsertStrings(table, q1.strings)}
        : q1 \in QueryStrings(table, strings, <<>>)}

\* symbol rows that carry the position of the symbol in place of the id of
\* its name
SymbolsValues_ByPosition(file_id, mappings, symbols) ==
    [i \in 1..Len(symbols) |-> [file_id |-> file_id, name_id |-> i, name |-> symbols[i]]]

\* persist_elf_symbols: the rows of the multi-row insert into elf_symbols
SymbolsValues(file_id, mappings, symbols) ==
    [i \in 1..Len(symbols) |->
        [file_id |-> file_id, name_id |-> mappings[symbols[i]], name |-> symbols[i]]]

NoStrings == [reached |-> FALSE, ok |-> FALSE, table |-> <<>>, mappings |-> <<>>]

\* persist_elf_symbols(conn, package_id, file_name, symbols) on the tables
\* db = [files, strings, symbols]: every outcome [ok, db, ps], ps being what
\* its call of persist_strings returned
PersistElfSymbols(db, package_id, file_name, symbols) ==
    UNION {
        IF ~f.ok
        THEN {[ok |-> FALSE, db |-> [db EXCEPT !.files = f.table], ps |-> NoStrings]}
        ELSE UNION {
            LET db2 == [db EXCEPT !.files = f.table, !.strings = s.table]
                ps == [reached |-> TRUE, ok |-> s.ok, table |-> s.table,
                       mappings |-> s.mappings]
            IN IF ~s.ok \/ (\E i \in 1..Len(symbols) : symbols[i] \notin DOMAIN s.mappings)
               THEN {[ok |-> FALSE, db |-> db2, ps |-> ps]}
               ELSE LET db3 == [db2 EXCEPT !.symbols =
                                  @ \o SymbolsValues(f.rowid, s.mappings, symbols)]
                    IN {[ok |-> FALSE, db |-> db2, ps |-> ps],
                        [ok |-> FALSE, db |-> db3, ps |-> ps],
                        [ok |-> TRUE, db |-> db3, ps |-> ps]}
            : s \in PersistStrings(db.strings, NamesOf(symbols))}
        : f \in InsertIntoReturningRowid(db.files, [package_id |-> package_id, name |-> file_name])}

\* a transaction whose failure leaves the rows written so far
TransactionResult_KeepsWrites(before, r) == r

\* conn.transaction(|| ...): a failed body is rolled back
TransactionResult(before, r) == IF r.ok THEN r ELSE [r EXCEPT !.db = before]

\* a persist_string that inserts without looking
PersistString_NoLookup(table, name) ==
    {[ok |-> FALSE, table |-> table, rowid |-> 0]} \cup InsertIntoReturningRowid(table, name)

\* persist_string(conn, s) of bin/index-repo.rs: the row with the name if there
\* is one, else a new row
PersistString(table, name) ==
    LET rows == RowIds(table, name)
    IN {[ok |-> FALSE, table |-> table, rowid |-> 0]}
       \cup (IF rows = {} THEN InsertIntoReturningRowid(table, name)
             ELSE {[ok |-> TRUE, table |-> table, rowid |-> i] : i \in rows})

\* persist_elf_symbol(conn, file_id, strtab, sym) of bin/index-repo.rs: the
\* name is resolved in the string table of the ELF file, interned with
\* persist_string, and the symbol row inserted
PersistElfSymbol(strings, symbols, file_id, name) ==
    {[ok |-> FALSE, strings |-> strings, symbols |-> symbols, rowid |-> 0]}
    \cup UNION {
        IF ~s.ok
        THEN {[ok |-> FALSE, strings |-> s.table, symbols |-> symbols, rowid |-> 0]}
        ELSE {[ok |-> r.ok, strings |-> s.table, symbols |-> r.table, rowid |-> r.rowid]
              : r \in InsertIntoReturningRowid(symbols,
                          [file_id |-> file_id, name_id |-> s.rowid, name |-> name])}
        : s \in PersistString(strings, name)}

\* no call of a Store function has been made
DbIdle ==
    /\ repoRows = <<>>
    /\ strRows = <<>>
    /\ dbLast = [op |-> "none", ok |-> TRUE]
    /\ dbCalls = 0

\* =================================================================
\* Scheduler: bin/index-repo.rs index_repo, index_package, index_file,
\* index_elf_file
\* =================================================================
Packages == 1..NumPackages

\* The catalog get_packages returned: for each package the cpio entries of its
\* payload before the trailer, each given by the number of dynamic symbols of
\* the entry (0: the peek is not an ELF file).
PkgEntries(p) ==
    CASE p = 1 -> <<1, 0>>
      [] p = 2 -> <<0>>
      [] OTHER -> <<>>

\* the name of the j-th dynamic symbol of an entry in its dynstrtab
SymName(j) == IF j % 2 = 1 THEN "puts" ELSE "free"

\* states in which an index_package future is suspended at an await
AwaitPoints == {"fetch", "open", "headers", "read_entry"}

\* states between conn.lock() and the end of the block that owns the guard
LockedStates == {"persist_package", "persist_file", "persist_symbol"}

Finished == {"ok", "failed", "cancelled"}

InFlight == {p \in Packages : ppc[p] \notin (Finished \cup {"queued"})}

\* a buffer that lets one future too many in
BufferUnorderedHasRoom_OffByOne(n, max) == n <= max

\* buffer_unordered(jobs): another future is pulled from the stream only while
\* fewer than jobs are in flight.
BufferUnorderedHasRoom(n, max) == n < max

\* a lock that never blocks
MutexLockReady_NoWait(owner) == TRUE

\* Mutex::lock: blocks while another guard exists.
MutexLockReady(owner) == owner = 0

SchedInit ==
    /\ started = 0
    /\ ppc = [p \in Packages |-> "queued"]
    /\ entryIdx = [p \in Packages |-> 0]
    /\ symIdx = [p \in Packages |-> 0]
    /\ connOwner = 0
    /\ pkgId = [p \in Packages |-> 0]
    /\ fileId = [p \in Packages |-> 0]
    /\ pkgRows = <<>>
    /\ fileRows = <<>>
    /\ symRows = <<>>
    /\ result = "running"
    /\ repoId = 0
    /\ skipped = {}

\* index_repo, lines 355-358: the next package's future is created and polled.
StartPipeline ==
    /\ result = "running"
    /\ loadPc = "pipelines"
    /\ started < NumPackages
    /\ BufferUnorderedHasRoom(Cardinality(InFlight), jobs)
    /\ started' = started + 1
    /\ ppc' = [ppc EXCEPT ![started + 1] = "fetch"]
    /\ UNCHANGED <<compVars, dbVars, schedAux, cpioVars, jobs, semVars, entryIdx, symIdx, connOwner,
                   pkgId, fileId, pkgRows, fileRows, symRows, result>>

\* An await of index_package resolves to Ok: fetch_file, File::open,
\* read_all_headers.
AwaitOk(p) ==
    /\ ppc[p] \in {"fetch", "open", "headers"}
    /\ ppc' = [ppc EXCEPT ![p] =
                 CASE ppc[p] = "fetch" -> "open"
                   [] ppc[p] = "open" -> "lock_package"
                   [] OTHER -> "read_entry"]
    /\ UNCHANGED <<compVars, dbVars, schedAux, cpioVars, jobs, semVars, started, entryIdx, symIdx,
                   connOwner, pkgId, fileId, pkgRows, fileRows, symRows, result>>

\* An await of index_package resolves to Err and `?` returns it.  The stream
\* of buffer_unordered yields the error, collect() fails with it and index_repo
\* returns it; the futures still in flight are dropped where they are suspended.
AwaitErr(p) ==
    /\ ppc[p] \in AwaitPoints
    /\ \A q \in InFlight : ppc[q] \in AwaitPoints
    /\ ppc' = [q \in Packages |->
                 IF q = p THEN "failed"
                 ELSE IF q \in InFlight THEN "cancelled" ELSE ppc[q]]
    /\ result' = "err"
    /\ UNCHANGED <<compVars, dbVars, schedAux, cpioVars, jobs, semVars, started, entryIdx, symIdx,
                   connOwner, pkgId, fileId, pkgRows, fileRows, symRows>>

\* index_package, line 306: conn.lock()
LockForPackage(p) ==
    /\ ppc[p] = "lock_package"
    /\ MutexLockReady(connOwner)
    /\ connOwner' = p
    /\ ppc' = [ppc EXCEPT ![p] = "persist_package"]
    /\ UNCHANGED <<compVars, dbVars, schedAux, cpioVars, jobs, semVars, started, entryIdx, symIdx,
                   pkgId, fileId, pkgRows, fileRows, symRows, result>>

\* the row persist_package inserts for package p
PackageRow(p) == [repo_id |-> repoId, pkg |-> p]

\* index_package, lines 307-308: persist_package succeeds and the guard goes
\* out of scope.
PersistPackageOk(p) ==
    /\ ppc[p] = "persist_package"
    /\ \E r \in InsertIntoReturningRowid(pkgRows, PackageRow(p)) :
        /\ r.ok
        /\ pkgRows' = r.table
        /\ pkgId' = [pkgId EXCEPT ![p] = r.rowid]
    /\ connOwner' = 0
    /\ ppc' = [ppc EXCEPT ![p] = "headers"]
    /\ UNCHANGED <<compVars, dbVars, schedAux, cpioVars, jobs, semVars, started, entryIdx, symIdx,
                   fileId, fileRows, symRows, result>>

\* index_package, line 307: persist_package fails, `?` returns the error and
\* drops the guard; index_repo fails as in AwaitErr.
PersistPackageErr(p) ==
    /\ ppc[p] = "persist_package"
    /\ \A q \in InFlight \ {p} : ppc[q] \in AwaitPoints
    /\ \E r \in InsertIntoReturningRowid(pkgRows, PackageRow(p)) :
        /\ ~r.ok
        /\ pkgRows' = r.table
    /\ connOwner' = 0
    /\ ppc' = [q \in Packages |->
                 IF q = p THEN "failed"
                 ELSE IF q \in InFlight THEN "cancelled" ELSE ppc[q]]
    /\ result' = "err"
    /\ UNCHANGED <<compVars, dbVars, schedAux, cpioVars, jobs, semVars, started, entryIdx, symIdx,
                   pkgId, fileId, fileRows, symRows>>

\* a walk that takes the last entry for the trailer
NoMoreEntries_OneEarly(entries, idx) == idx + 1 >= Len(entries)

\* index_package, lines 312-316: read_entry returns None at the trailer
NoMoreEntries(entries, idx) == idx = Len(entries)

\* index_package, lines 312-316: read_entry yields the next entry, or None at
\* the trailer, which ends the pipeline with Ok(()).
ReadEntry(p) ==
    /\ ppc[p] = "read_entry"
    /\ IF NoMoreEntries(PkgEntries(p), entryIdx[p])
       THEN /\ ppc' = [ppc EXCEPT ![p] = "ok"]
            /\ UNCHANGED entryIdx
       ELSE /\ ppc' = [ppc EXCEPT ![p] = "lock_file"]
            /\ entryIdx' = [entryIdx EXCEPT ![p] = @ + 1]
    /\ UNCHANGED <<compVars, dbVars, schedAux, cpioVars, jobs, semVars, started, symIdx, connOwner,
                   pkgId, fileId, pkgRows, fileRows, symRows, result>>

\* index_file, line 258: conn.lock()
LockForFile(p) ==
    /\ ppc[p] = "lock_file"
    /\ MutexLockReady(connOwner)
    /\ connOwner' = p
    /\ ppc' = [ppc EXCEPT ![p] = "persist_file"]
    /\ UNCHANGED <<compVars, dbVars, schedAux, cpioVars, jobs, semVars, started, entryIdx, symIdx,
                   pkgId, fileId, pkgRows, fileRows, symRows, result>>

\* the row persist_file inserts for the current entry of package p
FileRow(p) == [package_id |-> pkgId[p], entry |-> entryIdx[p]]

\* index_file, lines 259-264: persist_file succeeds, the guard is dropped;
\* an ELF entry goes on to index_elf_file, any other entry is done.
PersistFileOk(p) ==
    /\ ppc[p] = "persist_file"
    /\ \E r \in InsertIntoReturningRowid(fileRows, FileRow(p)) :
        /\ r.ok
        /\ fileRows' = r.table
        /\ fileId' = [fileId EXCEPT ![p] = r.rowid]
    /\ connOwner' = 0
    /\ symIdx' = [symIdx EXCEPT ![p] = 0]
    /\ ppc' = [ppc EXCEPT ![p] =
                 IF PkgEntries(p)[entryIdx[p]] > 0 THEN "lock_symbol" ELSE "read_entry"]
    /\ UNCHANGED <<compVars, dbVars, schedAux, cpioVars, jobs, semVars, started, entryIdx, pkgId,
                   pkgRows, symRows, result>>

\* an error of index_file that is returned with `?`
AfterIndexFileErr_Propagated == "failed"

\* index_package, lines 318-322: if let Err(e) = index_file(..) { warn!(..) },
\* then the loop goes round
AfterIndexFileErr == "read_entry"

\* index_file, line 259 and index_package, lines 318-320: persist_file fails;
\* the error is logged and the walk goes on with the next entry.
PersistFileErr(p) ==
    /\ ppc[p] = "persist_file"
    /\ \E r \in InsertIntoReturningRowid(fileRows, FileRow(p)) :
        /\ ~r.ok
        /\ fileRows' = r.table
    /\ skipped' = skipped \cup {<<p, entryIdx[p], 0>>}
    /\ connOwner' = 0
    /\ ppc' = [ppc EXCEPT ![p] = AfterIndexFileErr]
    /\ UNCHANGED <<compVars, dbVars, repoId, cpioVars, jobs, semVars, started, entryIdx, symIdx,
                   pkgId, fileId, pkgRows, symRows, result>>

\* index_elf_file, line 223: conn.lock() at the start of one loop iteration
LockForSymbol(p) ==
    /\ ppc[p] = "lock_symbol"
    /\ MutexLockReady(connOwner)
    /\ connOwner' = p
    /\ ppc' = [ppc EXCEPT ![p] = "persist_symbol"]
    /\ UNCHANGED <<compVars, dbVars, schedAux, cpioVars, jobs, semVars, started, entryIdx, symIdx,
                   pkgId, fileId, pkgRows, fileRows, symRows, result>>

\* index_elf_file, lines 224-231: persist_elf_symbol returns (a failure is
\* logged and skipped), the guard is dropped at the end of the iteration.
PersistSymbol(p) ==
    /\ ppc[p] = "persist_symbol"
    /\ \E r \in PersistElfSymbol(strRows, symRows, fileId[p], SymName(symIdx[p] + 1)) :
        /\ strRows' = r.strings
        /\ symRows' = r.symbols
        /\ skipped' = IF r.ok THEN skipped
                      ELSE skipped \cup {<<p, entryIdx[p], symIdx[p] + 1>>}
    /\ connOwner' = 0
    /\ symIdx' = [symIdx EXCEPT ![p] = @ + 1]
    /\ ppc' = [ppc EXCEPT ![p] =
                 IF symIdx[p] + 1 = PkgEntries(p)[entryIdx[p]]
                 THEN "read_entry" ELSE "lock_symbol"]
    /\ UNCHANGED <<compVars, repoRows, dbLast, dbCalls, repoId, cpioVars, jobs, semVars, started,
                   entryIdx, pkgId, fileId, pkgRows, fileRows, result>>

\* a collect that is content with one Ok
CollectedAllOk_Any(pcs) == \E p \in Packages : pcs[p] = "ok"

\* index_repo, lines 359-360: collect() yields Ok when the stream has ended
\* and every item was Ok
CollectedAllOk(pcs) == \A p \in Packages : pcs[p] = "ok"

\* index_repo, lines 359-361: every future has resolved to Ok.
CollectOk ==
    /\ result = "running"
    /\ loadPc = "pipelines"
    /\ CollectedAllOk(ppc)
    /\ result' = "ok"
    /\ UNCHANGED <<compVars, dbVars, schedAux, cpioVars, jobs, semVars, started, ppc, entryIdx,
                   symIdx, connOwner, pkgId, fileId, pkgRows, fileRows, symRows>>

\* =================================================================
\* cpio reader: cpio.rs
\* =================================================================
HEADER_SIZE == 110
PEEK_SIZE == 8192

NUL == "NUL"
TRAILER == <<"T", "R", "A", "I", "L", "E", "R", "!", "!", "!">>

\* ---- byte vectors.  A vector is a sequence of runs; a run is either len
\* zero bytes or the len bytes of the stream that start at offset lo.
Zeros(n) == IF n = 0 THEN <<>> ELSE <<[z |-> TRUE, lo |-> 0, len |-> n]>>
Src(lo, n) == IF n = 0 THEN <<>> ELSE <<[z |-> FALSE, lo |-> lo, len |-> n]>>

RECURSIVE VLen(_)
VLen(v) == IF v = <<>> THEN 0 ELSE Head(v).len + VLen(Tail(v))

\* concatenation; runs that continue each other are joined
VCat(a, b) ==
    IF a = <<>> THEN b
    ELSE IF b = <<>> THEN a
    ELSE LET x == a[Len(a)]
             y == b[1]
         IN IF x.z /\ y.z
            THEN SubSeq(a, 1, Len(a) - 1)
                   \o <<[z |-> TRUE, lo |-> 0, len |-> x.len + y.len]>> \o Tail(b)
            ELSE IF ~x.z /\ ~y.z /\ x.lo + x.len = y.lo
            THEN SubSeq(a, 1, Len(a) - 1)
                   \o <<[z |-> FALSE, lo |-> x.lo, len |-> x.len + y.len]>> \o Tail(b)
            ELSE a \o b

\* v[..n]
RECURSIVE VTake(_, _)
VTake(v, n) ==
    IF n = 0 \/ v = <<>> THEN <<>>
    ELSE IF Head(v).len <= n
         THEN VCat(<<Head(v)>>, VTake(Tail(v), n - Head(v).len))
         ELSE <<[Head(v) EXCEPT !.len = n]>>

\* v[n..]
RECURSIVE VDrop(_, _)
VDrop(v, n) ==
    IF n = 0 \/ v = <<>> THEN v
    ELSE IF Head(v).len <= n
         THEN VDrop(Tail(v), n - Head(v).len)
         ELSE <<[z |-> Head(v).z,
                 lo |-> IF Head(v).z THEN 0 ELSE Head(v).lo + n,
                 len |-> Head(v).len - n]>> \o Tail(v)

\* tokio_io::io::Window: a buffer and the range [start, end) of it in use
WindowNew(buf) == [buf |-> buf, start |-> 0, end |-> VLen(buf)]
WindowLen(w) == w.end - w.start
\* window.as_ref()
WindowSlice(w) == VDrop(VTake(w.buf, w.end), w.start)
\* the buffer after the window was filled with the n stream bytes at offset o
WindowFill(w, o, n) ==
    VCat(VCat(VTake(w.buf, w.start), Src(o, n)), VDrop(w.buf, w.start + n))

\* ---- the layout of the stream
\* (x + 3) & !3
AlignUp4(x) == (x + 3) - ((x + 3) % 4)

NameSize(e) == Len(e.name) + 1

RECURSIVE HeaderOff(_, _)
\* offset of the header of entry k; k = Len(a) + 1 gives the end of the archive
HeaderOff(a, k) ==
    IF k = 1 THEN 0
    ELSE LET e == a[k - 1]
             body == AlignUp4(HeaderOff(a, k - 1) + HEADER_SIZE + NameSize(e))
         IN AlignUp4(body + e.filesize)

BodyOff(a, k) == AlignUp4(HeaderOff(a, k) + HEADER_SIZE + NameSize(a[k]))

\* the entry whose header starts at offset o, or 0
EntryAt(o) ==
    IF \E k \in 1..Len(arch) : HeaderOff(arch, k) = o
    THEN CHOOSE k \in 1..Len(arch) : HeaderOff(arch, k) = o
    ELSE 0

\* the n bytes of the name field of entry e: the name, a NUL, zero padding
NameField(e, n) == [i \in 1..n |-> IF i <= Len(e.name) THEN e.name[i] ELSE NUL]

\* ---- the source
\* read_exact of n bytes at offset o: fails at end of file
ReadExactOk(o, n) == o + n <= slen

\* the sizes a single read into a buffer of cap bytes may return at offset o:
\* 0 at end of file, else up to cap bytes, as many as the source has ready
ReadSizes(o, cap) ==
    LET m == IF slen - o < cap THEN slen - o ELSE cap
    IN IF m <= 0 THEN {0}
       ELSE {m} \cup (IF shortLeft > 0 THEN {n \in {1, m - 1} : 0 < n /\ n < m} ELSE {})

\* ---- cpio.rs
\* parse_header on the 110 bytes at offset o: the fields of the entry whose
\* header starts there; bytes that are not a header do not parse
ParseHeader(o) ==
    LET k == EntryAt(o)
    IN IF k = 0 THEN [ok |-> FALSE]
       ELSE [ok |-> TRUE, k |-> k,
             c_namesize |-> NameSize(arch[k]), c_filesize |-> arch[k].filesize]

\* read_header(a, pos)
ReadHeader(o, p) ==
    IF ~ReadExactOk(o, HEADER_SIZE) THEN [ok |-> FALSE, off |-> slen]
    ELSE LET h == ParseHeader(o)
         IN IF ~h.ok THEN [ok |-> FALSE, off |-> o + HEADER_SIZE]
            ELSE [ok |-> TRUE, off |-> o + HEADER_SIZE, pos |-> p + HEADER_SIZE,
                  header |-> h]

\* a padding that is never zero: four bytes where the name already ends aligned
NamePadding_NeverZero(p, size) == 4 - ((p + size) % 4)

\* read_name: the padding after a name that ends at pos + size
NamePadding(p, size) == AlignUp4(p + size) - (p + size)

\* a name that keeps its terminating NUL
NameOf_KeepNul(bytes, size) == SubSeq(bytes, 1, size)

\* read_name: &name[..size - 1]
NameOf(bytes, size) == SubSeq(bytes, 1, size - 1)

\* read_name(a, pos, size) for the name field of entry k
ReadName(o, p, size, k) ==
    LET padding == NamePadding(p, size)
    IN IF ~ReadExactOk(o, size + padding) THEN [ok |-> FALSE, off |-> slen]
       ELSE [ok |-> TRUE, off |-> o + size + padding, pos |-> p + size + padding,
             name |-> NameOf(NameField(arch[k], size + padding), size)]

\* a comparison that looks at the first nine characters only
IsTrailer_Prefix(name) ==
    Len(name) >= 9 /\ SubSeq(name, 1, 9) = SubSeq(TRAILER, 1, 9)

\* read_entry_start: name == "TRAILER!!!"
IsTrailer(name) == name = TRAILER

\* a peek that always fills the whole buffer
PeekSize_Block(c_filesize) == PEEK_SIZE

\* a peek that is not capped
PeekSize_Uncapped(c_filesize) == c_filesize

\* read_entry_start: min(header.c_filesize as usize, 8192)
PeekSize(c_filesize) == Min(c_filesize, PEEK_SIZE)

\* read_entry_start(a, pos)
ReadEntryStart(o, p) ==
    LET h == ReadHeader(o, p)
    IN IF ~h.ok THEN [ok |-> FALSE, off |-> h.off]
       ELSE LET n == ReadName(h.off, h.pos, h.header.c_namesize, h.header.k)
            IN IF ~n.ok THEN [ok |-> FALSE, off |-> n.off]
               ELSE IF IsTrailer(n.name)
               THEN [ok |-> TRUE, some |-> FALSE, off |-> n.off, pos |-> n.pos]
               ELSE LET size == PeekSize(h.header.c_filesize)
                    IN IF ~ReadExactOk(n.off, size) THEN [ok |-> FALSE, off |-> slen]
                       ELSE [ok |-> TRUE, some |-> TRUE,
                             off |-> n.off + size, pos |-> n.pos + size,
                             entry |-> [header |-> h.header, name |-> n.name,
                                        peek |-> [WindowNew(Zeros(size))
                                                    EXCEPT !.buf = Src(n.off, size)]]]

\* a window whose start was not moved past the peek
DataWindowStart_Unset(peek_len) == 0

\* read_entry_data: window.set_start(peek_len)
DataWindowStart(peek_len) == peek_len

\* a pos that counts the peek a second time
DataPos_PeekTwice(p, c_filesize, peek_len) == p + c_filesize

\* read_entry_data: pos + (c_filesize - peek_len)
DataPos(p, c_filesize, peek_len) == p + (c_filesize - peek_len)

\* read_entry_data(a, pos, c_filesize, peek)
ReadEntryData(o, p, c_filesize, peek) ==
    LET peek_len == WindowLen(peek)
        copied == VCat(WindowSlice(peek), VDrop(Zeros(c_filesize), peek_len))
        window == [WindowNew(copied) EXCEPT !.start = DataWindowStart(peek_len)]
        n == WindowLen(window)
    IN IF ~ReadExactOk(o, n) THEN [ok |-> FALSE, off |-> slen]
       ELSE [ok |-> TRUE, off |-> o + n, pos |-> DataPos(p, c_filesize, peek_len),
             data |-> WindowFill(window, o, n)]

\* skip_entry_data: c_filesize as usize - (peek.end() - peek.start())
SkipRemaining(c_filesize, peek) == c_filesize - WindowLen(peek)

\* a buffer that is never shortened to what remains of the body
SkipWindow_NoClamp(rem, peek) == peek

\* skip_entry_data: if remaining < peek.end() { peek.set_end(remaining) }
SkipWindow(rem, peek) == IF rem < peek.end THEN [peek EXCEPT !.end = rem] ELSE peek

\* an end of entry that consumes no padding
EndPadding_None(p) == 0

\* read_entry_end: the padding after a body that ends at pos
EndPadding(p) == AlignUp4(p) - p

\* read_entry_end(a, pos)
ReadEntryEnd(o, p) ==
    LET padding == EndPadding(p)
    IN IF ~ReadExactOk(o, padding) THEN [ok |-> FALSE, off |-> slen]
       ELSE [ok |-> TRUE, off |-> o + padding, pos |-> p + padding]

\* ---- the streams walked
Names == {<<>>, SubSeq(TRAILER, 1, 9)}
FileSizes == {0, 18, 8195, 16387}
Members == [name : Names, filesize : FileSizes]
Trailers == [name : {TRAILER}, filesize : {0, 4}]
Cuts == {0, 1, 5}

RECURSIVE SeqsUpTo(_, _)
SeqsUpTo(S, n) ==
    IF n = 0 THEN {<<>>}
    ELSE LET shorter == SeqsUpTo(S, n - 1)
         IN shorter \cup {Append(q, x) : q \in {r \in shorter : Len(r) = n - 1}, x \in S}

\* A well-formed stream is some members and the trailer.  A truncated stream
\* has lost the trailer and the last cut bytes of its last member.
Streams ==
    {[arch |-> m \o <<t>>, cut |-> 0] : m \in SeqsUpTo(Members, MaxEntries), t \in Trailers}
    \cup {[arch |-> m, cut |-> c] : m \in SeqsUpTo(Members, MaxEntries) \ {<<>>}, c \in Cuts}

\* The ELF check, goblin::peek of index_file (lines 261-264), made for every
\* file: it needs 16 bytes and fails without them, before any magic number
\* is compared, and the file is then taken as not ELF; with 16 bytes what
\* they hold decides, so a file that is long enough may or may not pass.
ELF_IDENT_SIZE == 16
GoblinPeek(window) ==
    IF WindowLen(window) < ELF_IDENT_SIZE THEN {"peek_failed"} ELSE {"elf", "not_elf"}

\* the dynamic symbols the parse of a body may yield (none when the parse
\* fails or the object has none)
WalkSymbolLists == {<<>>, <<"puts">>}

\* the walk is that of one package
WalkPackageId == 1

NoEntry == [header |-> [ok |-> FALSE], name |-> <<>>, peek |-> WindowNew(<<>>)]

CpioIdle ==
    /\ arch = <<>>
    /\ slen = 0
    /\ off = 0
    /\ pos = 0
    /\ wpc = "idle"
    /\ entry = NoEntry
    /\ data = <<>>
    /\ remaining = 0
    /\ shortLeft = 0
    /\ hdrOffs = <<>>
    /\ walkFiles = <<>>
    /\ last = [op |-> "none", ok |-> TRUE, pos0 |-> 0, off0 |-> 0, reads |-> 0]

\* index_package sets pos = 0 where the cpio stream starts.
CpioInit ==
    /\ \E s \in Streams :
        /\ arch = s.arch
        /\ slen = HeaderOff(s.arch, Len(s.arch) + 1) - s.cut
    /\ off = 0
    /\ pos = 0
    /\ wpc = "start"
    /\ entry = NoEntry
    /\ data = <<>>
    /\ remaining = 0
    /\ shortLeft = MaxShortReads
    /\ hdrOffs = <<>>
    /\ walkFiles = <<>>
    /\ last = [op |-> "none", ok |-> TRUE, pos0 |-> 0, off0 |-> 0, reads |-> 0]

Called(op, r) == [op |-> op, ok |-> r.ok, pos0 |-> pos, off0 |-> off, reads |-> 0]

\* the walk calls read_entry_start
WalkReadEntryStart ==
    /\ wpc = "start"
    /\ LET r == ReadEntryStart(off, pos)
       IN /\ last' = Called("read_entry_start", r)
          /\ hdrOffs' = Append(hdrOffs, off)
          /\ off' = r.off
          /\ IF ~r.ok
             THEN /\ wpc' = "error"
                  /\ UNCHANGED <<pos, entry>>
             ELSE /\ pos' = r.pos
                  /\ IF r.some
                     THEN wpc' = "entry" /\ entry' = r.entry
                     ELSE wpc' = "done" /\ entry' = NoEntry
    /\ UNCHANGED <<compVars, dbVars, schedAux, jobs, semVars, schedVars, arch, slen, data, remaining,
                   shortLeft, walkFiles>>

\* what a step of the walk that writes rows leaves alone, the walk's own
\* variables apart
walkFrame == <<compVars, jobs, semVars, started, ppc, entryIdx, symIdx, connOwner, pkgId, fileId,
               pkgRows, fileRows, result, repoRows, dbLast, dbCalls, repoId>>

\* the files table of the walk: a row for each name in walkFiles
WalkFileRows == [i \in 1..Len(walkFiles) |-> [package_id |-> WalkPackageId, name |-> walkFiles[i]]]
WalkFileNames(table) == [i \in 1..Len(table) |-> table[i].name]

\* the ELF check passed and the walk takes the entry for an ELF file:
\* read_entry_data, then
\* persist_elf_symbols in a transaction with the symbols parsed from the
\* body: the File row, the String rows and the ElfSymbol rows.  A failure
\* of persist_elf_symbols is logged and the walk goes on.
WalkReadEntryData ==
    /\ wpc = "entry"
    /\ "elf" \in GoblinPeek(entry.peek)
    /\ LET r == ReadEntryData(off, pos, entry.header.c_filesize, entry.peek)
       IN /\ last' = Called("read_entry_data", r)
          /\ off' = r.off
          /\ IF ~r.ok
             THEN /\ wpc' = "error"
                  /\ UNCHANGED <<pos, data, walkFiles, strRows, symRows>>
             ELSE /\ pos' = r.pos
                  /\ data' = r.data
                  /\ wpc' = "end"
                  /\ \E symbols \in WalkSymbolLists :
                     LET db == [files |-> WalkFileRows, strings |-> strRows, symbols |-> symRows]
                     IN \E p0 \in PersistElfSymbols(db, WalkPackageId, entry.name, symbols) :
                          LET p1 == TransactionResult(db, p0)
                          IN /\ walkFiles' = WalkFileNames(p1.db.files)
                             /\ strRows' = p1.db.strings
                             /\ symRows' = p1.db.symbols
    /\ UNCHANGED <<walkFrame, skipped, arch, slen, entry, remaining, shortLeft, hdrOffs>>

\* the check failed or found no ELF file: the walk does not want the body,
\* skip_entry_data is called
WalkSkipEntryData ==
    /\ wpc = "entry"
    /\ GoblinPeek(entry.peek) \cap {"not_elf", "peek_failed"} # {}
    /\ last' = [op |-> "skip_entry_data", ok |-> TRUE, pos0 |-> pos, off0 |-> off, reads |-> 0]
    /\ remaining' = SkipRemaining(entry.header.c_filesize, entry.peek)
    /\ wpc' = "skip"
    /\ UNCHANGED <<compVars, dbVars, schedAux, jobs, semVars, schedVars, arch, slen, off, pos, entry, data,
                   shortLeft, hdrOffs, walkFiles>>

\* skip_entry_data: one iteration of `while remaining > 0`
SkipRead ==
    /\ wpc = "skip"
    /\ remaining > 0
    /\ LET w == SkipWindow(remaining, entry.peek)
       IN \E n \in ReadSizes(off, WindowLen(w)) :
            /\ entry' = [entry EXCEPT !.peek = w]
            /\ remaining' = remaining - n
            /\ pos' = pos + n
            /\ off' = off + n
            /\ last' = [last EXCEPT !.reads = 1 - @]
            /\ shortLeft' = IF 0 < n /\ n < Min(WindowLen(w), slen - off)
                            THEN shortLeft - 1 ELSE shortLeft
    /\ UNCHANGED <<compVars, dbVars, schedAux, jobs, semVars, schedVars, arch, slen, wpc, data, hdrOffs,
                   walkFiles>>

\* skip_entry_data returns Ok((a, pos)); the walk writes the File row with
\* persist_file, whose failure is logged and the walk goes on
SkipReturn ==
    /\ wpc = "skip"
    /\ remaining = 0
    /\ \E r \in InsertIntoReturningRowid(WalkFileRows,
                    [package_id |-> WalkPackageId, name |-> entry.name]) :
         walkFiles' = WalkFileNames(r.table)
    /\ wpc' = "end"
    /\ UNCHANGED <<walkFrame, skipped, strRows, symRows, arch, slen, off, pos, entry, data,
                   remaining, shortLeft, hdrOffs, last>>

\* the walk calls read_entry_end, the iteration ends, and the body it held
\* is dropped with it; the walk goes on to the next entry
WalkReadEntryEnd ==
    /\ wpc = "end"
    /\ LET r == ReadEntryEnd(off, pos)
       IN /\ last' = Called("read_entry_end", r)
          /\ off' = r.off
          /\ IF ~r.ok
             THEN wpc' = "error" /\ UNCHANGED pos
             ELSE wpc' = "start" /\ pos' = r.pos
    /\ data' = <<>>
    /\ UNCHANGED <<compVars, dbVars, schedAux, jobs, semVars, schedVars, arch, slen, entry, remaining,
                   shortLeft, hdrOffs, walkFiles>>

\* =================================================================
\* Calls of the Store functions, in any order and with any arguments
\* =================================================================
Uris == {"u1", "u2"}
PrimaryDbHrefs == {"d1", "d2"}
PackageNames == {"p1"}
FileNames == {"f1", "f2"}
SymbolNames == {"puts", "free"}
SymbolLists == {<<>>, <<"puts">>, <<"free", "puts">>, <<"puts", "puts">>}

\* persist_repo(conn, repo_uri, primary_db_data)
DbPersistRepo ==
    /\ dbCalls < MaxDbCalls
    /\ \E uri \in Uris, primary_db \in PrimaryDbHrefs :
       \E r \in PersistRepo(repoRows, uri, primary_db) :
        /\ repoRows' = r.table
        /\ dbLast' = [op |-> "persist_repo", ok |-> r.ok, rowid |-> r.rowid,
                      rows0 |-> Len(repoRows), uri |-> uri, primary_db |-> primary_db]
    /\ dbCalls' = dbCalls + 1
    /\ UNCHANGED <<compVars, jobs, semVars, cpioVars, schedCtl, schedAux, pkgRows, fileRows, symRows, strRows>>

\* persist_package(conn, repo_id, p), repo_id being what persist_repo returned
DbPersistPackage ==
    /\ dbCalls < MaxDbCalls
    /\ \E repo_id \in 1..Len(repoRows), name \in PackageNames :
       \E r \in InsertIntoReturningRowid(pkgRows, [repo_id |-> repo_id, name |-> name]) :
        /\ pkgRows' = r.table
        /\ dbLast' = [op |-> "persist_package", ok |-> r.ok, rowid |-> r.rowid,
                      rows0 |-> Len(pkgRows)]
    /\ dbCalls' = dbCalls + 1
    /\ UNCHANGED <<compVars, jobs, semVars, cpioVars, schedCtl, schedAux, repoRows, fileRows, symRows, strRows>>

\* the package ids a caller can hold: those of the packages table; package 1
\* is there from an earlier run when the table is still empty
PackageIds == 1..(IF pkgRows = <<>> THEN 1 ELSE Len(pkgRows))

\* persist_file(conn, package_id, name)
DbPersistFile ==
    /\ dbCalls < MaxDbCalls
    /\ \E package_id \in PackageIds, name \in FileNames :
       \E r \in InsertIntoReturningRowid(fileRows, [package_id |-> package_id, name |-> name]) :
        /\ fileRows' = r.table
        /\ dbLast' = [op |-> "persist_file", ok |-> r.ok, rowid |-> r.rowid,
                      rows0 |-> Len(fileRows)]
    /\ dbCalls' = dbCalls + 1
    /\ UNCHANGED <<compVars, jobs, semVars, cpioVars, schedCtl, schedAux, repoRows, pkgRows, symRows, strRows>>

\* persist_elf_symbols(conn, package_id, file_name, symbols), called inside
\* conn.transaction
DbPersistElfSymbols ==
    /\ dbCalls < MaxDbCalls
    /\ \E package_id \in PackageIds, file_name \in FileNames, symbols \in SymbolLists :
       LET db == [files |-> fileRows, strings |-> strRows, symbols |-> symRows]
       IN \E r0 \in PersistElfSymbols(db, package_id, file_name, symbols) :
           LET r == TransactionResult(db, r0)
           IN /\ fileRows' = r.db.files
              /\ strRows' = r.db.strings
              /\ symRows' = r.db.symbols
              /\ dbLast' = [op |-> "persist_elf_symbols", ok |-> r.ok,
                            symbols |-> symbols, ps |-> r.ps]
    /\ dbCalls' = dbCalls + 1
    /\ UNCHANGED <<compVars, jobs, semVars, cpioVars, schedCtl, schedAux, repoRows, pkgRows>>

\* persist_elf_symbol(conn, file_id, strtab, sym) of bin/index-repo.rs, file_id
\* being what persist_file returned
DbPersistElfSymbol ==
    /\ dbCalls < MaxDbCalls
    /\ \E file_id \in 1..Len(fileRows), name \in SymbolNames :
       \E r \in PersistElfSymbol(strRows, symRows, file_id, name) :
        /\ strRows' = r.strings
        /\ symRows' = r.symbols
        /\ dbLast' = [op |-> "persist_elf_symbol", ok |-> r.ok, rowid |-> r.rowid,
                      rows0 |-> Len(symRows)]
    /\ dbCalls' = dbCalls + 1
    /\ UNCHANGED <<compVars, jobs, semVars, cpioVars, schedCtl, schedAux, repoRows, pkgRows, fileRows>>

\* =================================================================
\* fetch_file (bin/index-repo.rs 94-112) with hashes.rs, fs.rs, the
\* Decoders (decoders.rs 19-86) and the status check of checked_fetch
\* =================================================================
\* A string the code takes apart is a sequence of one-character strings.
\* File contents are sequences over Bytes.  A response body is a sequence
\* of chunks, a chunk a sequence of elements: a byte of Bytes, or one of
\* the parts of an xz stream, which are several bytes each:
\*   XzHeader    the 12-byte stream header (first byte 0xFD);
\*   XzBlock     a block that holds the content <<"b">> (28 bytes);
\*   XzBadBlock  the same block with a byte of its data changed, so that
\*               its check does not match (28 bytes);
\*   XzFooter    the index of a stream of one block of one byte, and the
\*               stream footer (20 bytes).
\* The compressed form of <<"b">> is <<XzHeader, XzBlock, XzFooter>>.
\* Sha256Hex stands for an injective digest.
Bytes == {"a", "b"}
XzHeader == "FD"
XzBlock == "[b]"
XzBadBlock == "[b!]"
XzFooter == "YZ"
Hrefs == {<<"p">>, <<"p", ".", "x", "z">>, <<"p", " ">>}
RepoUri == <<"r">>
Statuses == {199, 200, 299, 300, 404}
BodyChunks ==
    {<<"a">>, <<XzHeader, XzBlock, XzFooter>>, <<XzHeader, XzBlock, XzBadBlock>>}

Sha256Hex(bytes) == <<"sha256">> \o bytes

Checksums ==
    [tpe : {"sha256", "md5"}, hexdigest : {Sha256Hex(<<"a">>), Sha256Hex(<<"b">>)}]

EndsWith(s, suffix) ==
    /\ Len(s) >= Len(suffix)
    /\ SubSeq(s, Len(s) - Len(suffix) + 1, Len(s)) = suffix

\* Decoder::from_href: ".xz" selects the xz decoder and is stripped from
\* the path; any other href is stored as it comes.
DecoderFromHref(href) ==
    IF EndsWith(href, <<".", "x", "z">>)
    THEN [kind |-> "xz", path |-> SubSeq(href, 1, Len(href) - 3)]
    ELSE [kind |-> "plain", path |-> href]

Paths == {DecoderFromHref(h).path : h \in Hrefs}

\* what is at a path: nothing, something that cannot be opened or read,
\* or a file with its bytes
Absent == [state |-> "absent", bytes |-> <<>>]
Unreadable == [state |-> "unreadable", bytes |-> <<>>]
FileOf(bytes) == [state |-> "file", bytes |-> bytes]

\* hexdigest_file: only "sha256" is supported.
HexdigestFile(bytes, hash_type) ==
    IF hash_type = "sha256"
    THEN [ok |-> TRUE, hexdigest |-> Sha256Hex(bytes)]
    ELSE [ok |-> FALSE, hexdigest |-> <<>>]

\* hexdigest_path: File::open, then hexdigest_file.
HexdigestPath(fs, path, hash_type) ==
    IF fs[path].state # "file"
    THEN [ok |-> FALSE, hexdigest |-> <<>>]
    ELSE HexdigestFile(fs[path].bytes, hash_type)

\* a cache test that accepts any file it can hash
CachedCopyMatches_AnyDigest(fs, path, open_checksum) ==
    HexdigestPath(fs, path, open_checksum.tpe).ok

\* fetch_file, lines 100-104: the cached copy is used when it can be
\* hashed and the digest is the expected one.
CachedCopyMatches(fs, path, open_checksum) ==
    LET h == HexdigestPath(fs, path, open_checksum.tpe)
    IN h.ok /\ h.hexdigest = open_checksum.hexdigest

\* repo_uri + "/" + href
UriStr(repo_uri, href) == repo_uri \o <<"/">> \o href

\* uri_str.parse::<hyper::Uri>(): a URI with a space in it is rejected.
UriParses(uri_str) == \A i \in 1..Len(uri_str) : uri_str[i] # " "

\* create_file_all: the file exists and is empty afterwards, or the call
\* fails (no parent, create_dir_all or File::create failed) and nothing
\* has changed.
CreateFileAll(fs, path) ==
    {[ok |-> TRUE, files |-> [fs EXCEPT ![path] = FileOf(<<>>)]],
     [ok |-> FALSE, files |-> fs]}

\* a status test that lets redirects and errors through
StatusIsSuccess_Any(status) == status >= 200

\* StatusCode::is_success
StatusIsSuccess(status) == 200 <= status /\ status < 300

\* what the server does with a GET: no answer, or a status and a body
ServerAnswers ==
    {[transport_ok |-> FALSE, status |-> 0, chunks |-> <<>>]}
    \cup [transport_ok : {TRUE}, status : Statuses,
          chunks : SeqsUpTo(BodyChunks, MaxChunks)]

\* checked_fetch, lines 28-38: the result for an answer of the server.
\* The message is the format string with its arguments.
CheckedFetchResult(uri, answer) ==
    IF ~answer.transport_ok
    THEN [ok |-> FALSE, chunks |-> <<>>,
          msg |-> [text |-> "Failed to fetch {}", args |-> [uri |-> uri]]]
    ELSE IF StatusIsSuccess(answer.status)
    THEN [ok |-> TRUE, chunks |-> answer.chunks,
          msg |-> [text |-> "", args |-> [uri |-> uri]]]
    ELSE [ok |-> FALSE, chunks |-> <<>>,
          msg |-> [text |-> "Failed to fetch {}: status-code {}",
                   args |-> [uri |-> uri, status |-> answer.status]]]

\* the number of bytes of an element of a chunk
ElementLen(e) ==
    CASE e = XzHeader -> 12
      [] e \in {XzBlock, XzBadBlock} -> 28
      [] e = XzFooter -> 20
      [] OTHER -> 1

\* Where a block has to start the decoder takes the first byte for the
\* size of a block header, (byte + 1) * 4 bytes: the size it waits for when
\* the byte is "a" (0x61), "b" (0x62) or the first byte of XzHeader (0xFD).
BlockHeaderSize(e) ==
    CASE e = "a" -> 392
      [] e = "b" -> 396
      [] OTHER -> 1016

\* The decoder of xz2::stream::Stream::new_stream_decoder before any input:
\* it collects the 12 bytes of the stream header.  In phase "header" and
\* "block_header" pending is the number of bytes collected so far, need the
\* number that makes the structure complete; blocks counts the blocks
\* decoded.
XzNew == [phase |-> "header", pending |-> 0, need |-> 12, blocks |-> 0]

\* xz.process_vec on one element e of the input (liblzma's stream decoder):
\* what it answers, the content it produces and the state it is left in.
\*  - header: bytes are collected until there are 12; they must be the
\*    stream header (else Format error);
\*  - block: a block gives its content, and a block whose check does not
\*    match a Data error; the index must be that of the blocks decoded
\*    (else Data error) and with the footer ends the stream; any other
\*    first byte opens a block header of BlockHeaderSize bytes;
\*  - block_header: bytes are collected until the announced size is
\*    reached; they are no block header (Data error);
\*  - ended: StreamEnd is answered and nothing is consumed.
XzProcessElement(xz, e) ==
    CASE xz.phase = "header" ->
           IF xz.pending + ElementLen(e) < xz.need
           THEN [status |-> "ok", out |-> <<>>,
                 xz |-> [xz EXCEPT !.pending = @ + ElementLen(e)]]
           ELSE IF xz.pending = 0 /\ e = XzHeader
           THEN [status |-> "ok", out |-> <<>>,
                 xz |-> [xz EXCEPT !.phase = "block", !.pending = 0, !.need = 0]]
           ELSE [status |-> "error", out |-> <<>>, xz |-> xz]
      [] xz.phase = "block" ->
           IF e = XzBlock
           THEN [status |-> "ok", out |-> <<"b">>,
                 xz |-> [xz EXCEPT !.blocks = Min(@ + 1, 2)]]
           ELSE IF e = XzBadBlock
           THEN [status |-> "error", out |-> <<>>, xz |-> xz]
           ELSE IF e = XzFooter
           THEN IF xz.blocks = 1
                THEN [status |-> "ok", out |-> <<>>,
                      xz |-> [xz EXCEPT !.phase = "ended"]]
                ELSE [status |-> "error", out |-> <<>>, xz |-> xz]
           ELSE [status |-> "ok", out |-> <<>>,
                 xz |-> [xz EXCEPT !.phase = "block_header",
                                   !.pending = ElementLen(e),
                                   !.need = BlockHeaderSize(e)]]
      [] xz.phase = "block_header" ->
           IF xz.pending + ElementLen(e) < xz.need
           THEN [status |-> "ok", out |-> <<>>,
                 xz |-> [xz EXCEPT !.pending = @ + ElementLen(e)]]
           ELSE [status |-> "error", out |-> <<>>, xz |-> xz]
      [] OTHER -> [status |-> "stream_end", out |-> <<>>, xz |-> xz]

\* decode_chunk (lines 56-69) on one chunk: the loop feeds the decoder what
\* is left of the chunk until all of it is consumed ("ok"), or process_vec
\* fails ("error"), or, the stream having ended with input left, for ever
\* ("spin": process_vec answers StreamEnd, consumes nothing, and total_in
\* stays below end).  out is the content produced before that.
RECURSIVE XzProcess(_, _)
XzProcess(xz, chunk) ==
    IF chunk = <<>>
    THEN [status |-> "ok", out |-> <<>>, xz |-> xz]
    ELSE LET r == XzProcessElement(xz, chunk[1])
         IN IF r.status = "stream_end"
            THEN [status |-> "spin", out |-> <<>>, xz |-> xz]
            ELSE IF r.status = "error"
            THEN r
            ELSE LET rest == XzProcess(r.xz, Tail(chunk))
                 IN [rest EXCEPT !.out = r.out \o @]

\* what one chunk does to the decoder and the content it yields:
\* PlainDecoder writes the chunk, XzDecoder what decode_chunk got out of
\* the decoder
DecodeChunk(kind, xz, chunk) ==
    IF kind = "plain"
    THEN [status |-> "ok", out |-> chunk, xz |-> xz]
    ELSE XzProcess(xz, chunk)

\* the content the decoder yields for a whole body, up to the chunk that
\* fails or never ends
RECURSIVE DecodedBody(_, _, _)
DecodedBody(kind, xz, chunks) ==
    IF chunks = <<>> THEN <<>>
    ELSE LET d == DecodeChunk(kind, xz, Head(chunks))
         IN IF d.status = "ok"
            THEN d.out \o DecodedBody(kind, d.xz, Tail(chunks))
            ELSE d.out

\* what write_all has put into the file when writing out has failed, or
\* when a chunk whose content is out has failed: write_all writes what it
\* can before the error, and the rounds of the loop that came before the
\* failing one have written their output (8192 bytes a round at most), so
\* any part of out from its start
WrittenBeforeFailure(out) == {SubSeq(out, 1, n) : n \in 0..Len(out)}

\* fetch_file has not returned; checked_fetch has not been called
NoResult == [ok |-> FALSE, err |-> "", path |-> <<>>]
NotFetched ==
    [called |-> FALSE, answered |-> FALSE, status |-> 0,
     result |-> [ok |-> FALSE, chunks |-> <<>>,
                 msg |-> [text |-> "", args |-> [uri |-> <<>>]]]]

FetchIdle ==
    /\ fpc = "idle"
    /\ fargs = [href |-> <<>>, open_checksum |-> [tpe |-> "", hexdigest |-> <<>>]]
    /\ fsAtCall = files
    /\ fetched = 0
    /\ bodyLeft = <<>>
    /\ xzStream = XzNew
    /\ fres = NoResult
    /\ cfLast = NotFetched
    /\ fcalls = 0

FetchInit ==
    /\ files \in [Paths -> {Absent, Unreadable, FileOf(<<"a">>), FileOf(<<"b">>)}]
    /\ FetchIdle

FetchFileErr(err) == [ok |-> FALSE, err |-> err, path |-> <<>>]

\* fetch_file up to its first await: the cache test, the URI, the file.
FetchFileCall ==
    /\ fpc \in {"idle", "returned"}
    /\ fcalls < MaxFetchFileCalls
    /\ \E href \in Hrefs, open_checksum \in Checksums :
         LET path == DecoderFromHref(href).path
         IN /\ fargs' = [href |-> href, open_checksum |-> open_checksum]
            /\ IF CachedCopyMatches(files, path, open_checksum)
               THEN /\ fpc' = "returned"
                    /\ fres' = [ok |-> TRUE, err |-> "", path |-> path]
                    /\ UNCHANGED files
               ELSE IF ~UriParses(UriStr(RepoUri, href))
               THEN /\ fpc' = "returned"
                    /\ fres' = FetchFileErr("Malformed URI")
                    /\ UNCHANGED files
               ELSE \E c \in CreateFileAll(files, path) :
                    /\ files' = c.files
                    /\ IF c.ok
                       THEN fpc' = "fetch" /\ fres' = NoResult
                       ELSE fpc' = "returned" /\ fres' = FetchFileErr("create_file_all")
    /\ fsAtCall' = files
    /\ fetched' = 0
    /\ bodyLeft' = <<>>
    /\ xzStream' = XzNew
    /\ cfLast' = NotFetched
    /\ fcalls' = fcalls + 1
    /\ UNCHANGED notFetch

\* checked_fetch returns to fetch_file.
FetchFileResponse ==
    /\ fpc = "fetch"
    /\ \E answer \in ServerAnswers :
         LET r == CheckedFetchResult(UriStr(RepoUri, fargs.href), answer)
         IN /\ cfLast' = [called |-> TRUE, answered |-> answer.transport_ok,
                        status |-> answer.status, result |-> r]
            /\ bodyLeft' = r.chunks
            /\ IF r.ok
               THEN fpc' = "decode" /\ UNCHANGED fres
               ELSE fpc' = "returned" /\ fres' = FetchFileErr("checked_fetch")
    /\ fetched' = fetched + 1
    /\ UNCHANGED <<notFetch, fargs, files, fsAtCall, xzStream, fcalls>>

\* decode_response, one chunk of the body: it is decoded and written to
\* the file, or reading the chunk, decoding it or writing it fails, or
\* decode_chunk never returns.
DecodeResponseChunk ==
    /\ fpc = "decode"
    /\ bodyLeft # <<>>
    /\ LET decoder == DecoderFromHref(fargs.href)
           d == DecodeChunk(decoder.kind, xzStream, Head(bodyLeft))
           appended(out) ==
               [files EXCEPT ![decoder.path] = FileOf(files[decoder.path].bytes \o out)]
       IN \/ /\ d.status = "ok"
             /\ files' = appended(d.out)
             /\ xzStream' = d.xz
             /\ bodyLeft' = Tail(bodyLeft)
             /\ UNCHANGED <<fpc, fres>>
          \/ /\ d.status = "spin"
             /\ files' = appended(d.out)
             /\ xzStream' = d.xz
             /\ fpc' = "decode_chunk"
             /\ UNCHANGED <<bodyLeft, fres>>
          \/ /\ d.status = "error"
             /\ \E written \in WrittenBeforeFailure(d.out) : files' = appended(written)
             /\ fpc' = "returned"
             /\ fres' = FetchFileErr("Failed to decompress a chunk")
             /\ UNCHANGED <<xzStream, bodyLeft>>
          \/ /\ d.out # <<>>
             /\ \E written \in WrittenBeforeFailure(d.out) \ {d.out} :
                  files' = appended(written)
             /\ fpc' = "returned"
             /\ fres' = FetchFileErr("Failed to write a chunk")
             /\ UNCHANGED <<xzStream, bodyLeft>>
          \/ /\ fpc' = "returned"
             /\ fres' = FetchFileErr("Failed to read a chunk")
             /\ UNCHANGED <<files, xzStream, bodyLeft>>
    /\ UNCHANGED <<notFetch, fargs, fsAtCall, fetched, cfLast, fcalls>>

\* the body has ended: fetch_file returns the path.
DecodeResponseEnd ==
    /\ fpc = "decode"
    /\ bodyLeft = <<>>
    /\ fpc' = "returned"
    /\ fres' = [ok |-> TRUE, err |-> "", path |-> DecoderFromHref(fargs.href).path]
    /\ UNCHANGED <<notFetch, fargs, files, fsAtCall, fetched, bodyLeft, xzStream,
                   cfLast, fcalls>>

\* =================================================================
\* The RPM reader: rpm.rs read_lead, read_header, read_index_entry,
\* read_full_header, FullHeader::get_string_tag
\* =================================================================
LEAD_SIZE == 96
RPM_HEADER_SIZE == 16
INDEX_ENTRY_SIZE == 16
RPM_STRING_TYPE == 6

\* tags, entry types and store bytes the stream may hold: the payload
\* format and payload coding tags; a string and an int32 entry; NUL, "A"
\* and the two bytes of U+00E9
Tags == {1124, 1125}
EntryTypes == {4, 6}
StoreBytes == {0, 65, 169, 195}
Defaults == {<<103, 122>>}

\* ((pos + 7) & !7)
AlignUp8(p) == ((p + 7) \div 8) * 8

\* a reader that never pads
HeaderPadding_None(p) == 0

\* read_header: the bytes skipped before a header that is read at pos p
HeaderPadding(p) == AlignUp8(p) - p

\* std::str::from_utf8 on bytes below 224: an ASCII byte stands alone, a
\* lead byte C2..DF takes one continuation byte 80..BF, anything else is
\* malformed.
RECURSIVE Utf8Valid(_)
Utf8Valid(b) ==
    IF b = <<>> THEN TRUE
    ELSE IF b[1] < 128 THEN Utf8Valid(Tail(b))
    ELSE IF b[1] \in 194..223 /\ Len(b) >= 2 /\ b[2] \in 128..191
    THEN Utf8Valid(Tail(Tail(b)))
    ELSE FALSE

\* iter().take_while(|b| *b != 0)
RECURSIVE TakeWhileNonZero(_)
TakeWhileNonZero(b) ==
    IF b = <<>> \/ b[1] = 0 THEN <<>>
    ELSE <<b[1]>> \o TakeWhileNonZero(Tail(b))

\* a lookup that does not look at the type of the entry
GetStringTag_AnyType(index_entries, rpm_store, tag, default) ==
    IF tag \notin DOMAIN index_entries
    THEN [ok |-> TRUE, value |-> default, err |-> ""]
    ELSE [ok |-> TRUE, err |-> "",
          value |-> TakeWhileNonZero(SubSeq(rpm_store, index_entries[tag].offset + 1,
                                            Len(rpm_store)))]

\* FullHeader::get_string_tag
GetStringTag(index_entries, rpm_store, tag, default) ==
    IF tag \notin DOMAIN index_entries
    THEN [ok |-> TRUE, value |-> default, err |-> ""]
    ELSE LET e == index_entries[tag]
             bytes == TakeWhileNonZero(SubSeq(rpm_store, e.offset + 1, Len(rpm_store)))
         IN IF e.tpe # RPM_STRING_TYPE
            THEN [ok |-> FALSE, value |-> <<>>,
                  err |-> "RPM index entry has incorrect type"]
            ELSE IF e.offset >= Len(rpm_store)
            THEN [ok |-> FALSE, value |-> <<>>,
                  err |-> "RPM index entry points past the end of the store"]
            ELSE IF ~Utf8Valid(bytes)
            THEN [ok |-> FALSE, value |-> <<>>,
                  err |-> "RPM index entry points to malformed UTF-8"]
            ELSE [ok |-> TRUE, value |-> bytes, err |-> ""]

NoTag == [called |-> FALSE, tag |-> 0, default |-> <<>>,
          result |-> [ok |-> FALSE, value |-> <<>>, err |-> ""]]
NoHeader == [index_entry_count |-> 0, store_size |-> 0]
NoEntries == [t \in {} |-> [tpe |-> 0, offset |-> 0]]

RpmIdle ==
    /\ rpc = "idle"
    /\ rpos = 0
    /\ rconsumed = 0
    /\ rheader = NoHeader
    /\ indexEntries = NoEntries
    /\ indexLeft = 0
    /\ rstore = <<>>
    /\ hdrLog = <<>>
    /\ tagLast = NoTag

\* the source is read from its start, pos counting from 0
RpmInit ==
    /\ rpc = "lead"
    /\ rpos = 0
    /\ rconsumed = 0
    /\ rheader = NoHeader
    /\ indexEntries = NoEntries
    /\ indexLeft = 0
    /\ rstore = <<>>
    /\ hdrLog = <<>>
    /\ tagLast = NoTag

\* read_exact(a, buf) that fails: the source ended, or failed, after n of
\* the Len(buf) = size bytes, and those n bytes have been taken from it.
\* (A read of no bytes cannot fail.)
ReadExactFails(size) == 0..(size - 1)

\* read_lead: 96 bytes are read and must start with the magic.  It fails
\* when the read fails, and with the 96 bytes read when they do not parse.
RpmReadLead ==
    /\ rpc = "lead"
    /\ \/ /\ rpc' = "error"
          /\ \E n \in ReadExactFails(LEAD_SIZE) \cup {LEAD_SIZE} :
                 rconsumed' = rconsumed + n
          /\ UNCHANGED rpos
       \/ /\ rpc' = "header"
          /\ rconsumed' = rconsumed + LEAD_SIZE
          /\ rpos' = rpos + LEAD_SIZE
    /\ UNCHANGED <<notRpm, rheader, indexEntries, indexLeft, rstore, hdrLog, tagLast>>

\* read_header, the first step of read_full_header: the padding is read,
\* then the 16 bytes of the header; the index entry count and the store
\* size are what the stream says.  It fails when the read of the padding
\* fails, when the read of the header fails after the padding, and with
\* everything read when the 16 bytes do not parse.
RpmReadHeader ==
    /\ rpc = "header"
    /\ LET padding == HeaderPadding(rpos)
       IN \/ /\ rpc' = "error"
             /\ \E n \in ReadExactFails(padding)
                         \cup {padding + k : k \in ReadExactFails(RPM_HEADER_SIZE)}
                         \cup {padding + RPM_HEADER_SIZE} :
                    rconsumed' = rconsumed + n
             /\ UNCHANGED <<rpos, rheader, indexLeft, hdrLog>>
          \/ \E c \in 0..MaxIndexEntries, s \in 0..MaxStoreSize :
             /\ rpc' = "index"
             /\ rconsumed' = rconsumed + padding + RPM_HEADER_SIZE
             /\ rpos' = rpos + padding + RPM_HEADER_SIZE
             /\ rheader' = [index_entry_count |-> c, store_size |-> s]
             /\ indexLeft' = c
             /\ hdrLog' = Append(hdrLog, [pos0 |-> rpos,
                                          start |-> rconsumed + padding,
                                          entries_read |-> 0, store_read |-> 0,
                                          pos1 |-> 0])
    /\ indexEntries' = NoEntries
    /\ rstore' = <<>>
    /\ UNCHANGED <<notRpm, tagLast>>

\* read_index_entry, one iteration of the fold of read_full_header: 16
\* bytes are read and the entry is inserted under its tag; it fails when
\* the read fails (any 16 bytes parse).
RpmReadIndexEntry ==
    /\ rpc = "index"
    /\ indexLeft > 0
    /\ \/ /\ rpc' = "error"
          /\ \E n \in ReadExactFails(INDEX_ENTRY_SIZE) : rconsumed' = rconsumed + n
          /\ UNCHANGED <<rpos, indexEntries, indexLeft, hdrLog>>
       \/ \E tag \in Tags, tpe \in EntryTypes, offset \in 0..MaxStoreSize :
          /\ indexEntries' =
                 [t \in DOMAIN indexEntries \cup {tag} |->
                     IF t = tag THEN [tpe |-> tpe, offset |-> offset]
                     ELSE indexEntries[t]]
          /\ indexLeft' = indexLeft - 1
          /\ rconsumed' = rconsumed + INDEX_ENTRY_SIZE
          /\ rpos' = rpos + INDEX_ENTRY_SIZE
          /\ hdrLog' = [hdrLog EXCEPT ![Len(hdrLog)].entries_read = @ + 1]
          /\ UNCHANGED rpc
    /\ UNCHANGED <<notRpm, rheader, rstore, tagLast>>

\* the last step of read_full_header: store_size bytes are read and the
\* FullHeader is returned with the new pos; it fails when the read fails.
RpmReadStore ==
    /\ rpc = "index"
    /\ indexLeft = 0
    /\ \/ /\ rpc' = "error"
          /\ \E n \in ReadExactFails(rheader.store_size) : rconsumed' = rconsumed + n
          /\ UNCHANGED <<rpos, rstore, hdrLog>>
       \/ \E bytes \in [1..rheader.store_size -> StoreBytes] :
          /\ rstore' = bytes
          /\ rconsumed' = rconsumed + rheader.store_size
          /\ rpos' = rpos + rheader.store_size
          /\ hdrLog' = [hdrLog EXCEPT ![Len(hdrLog)].store_read = Len(bytes),
                                      ![Len(hdrLog)].pos1 = rpos + rheader.store_size]
          /\ rpc' = IF Len(hdrLog) = 1 THEN "header" ELSE "done"
    /\ UNCHANGED <<notRpm, rheader, indexEntries, indexLeft, tagLast>>

\* a string tag of the main header is looked up
CallGetStringTag ==
    /\ rpc = "done"
    /\ \E tag \in Tags, default \in Defaults :
         tagLast' = [called |-> TRUE, tag |-> tag, default |-> default,
                     result |-> GetStringTag(indexEntries, rstore, tag, default)]
    /\ UNCHANGED <<notRpm, rpc, rpos, rconsumed, rheader, indexEntries, indexLeft,
                   rstore, hdrLog>>

\* =================================================================
\* decode_chunk (decoders.rs 56-69) over the chunks XzDecoder's
\* decode_response hands it (76-86)
\* =================================================================
\* Output bytes are numbered in the order the decoder produces them; the
\* file and buf are sequences of these numbers.

\* the slice always starts at the head of the chunk
FeedOffset_ChunkStart(chunk_len, left) == 0

\* &chunk[chunk.len() - remaining..chunk.len()]: where the slice given to
\* the decoder starts
FeedOffset(chunk_len, left) == chunk_len - left

\* xz.process_vec(input, &mut buf, Action::Run) with input_len bytes of
\* input and room for `room` bytes in buf: it consumes some of the input
\* and appends some output (with input to take and room to fill it does
\* one or the other), and it sees the end of the stream in input it
\* consumes; or it fails, and then too the decoder has taken the input and
\* put into buf the output that came before the error.  Once the stream
\* has ended it answers that the stream has ended, and takes and gives
\* nothing.
ProcessVec(input_len, room, total_out, ended) ==
    IF ended
    THEN {[ok |-> TRUE, n_in |-> 0, n_out |-> 0, ended |-> TRUE]}
    ELSE [ok : {FALSE}, n_in : 0..input_len,
          n_out : 0..Min(room, MaxXzOutput - total_out), ended : {FALSE}]
         \cup {r \in [ok : {TRUE}, n_in : 0..input_len,
                      n_out : 0..Min(room, MaxXzOutput - total_out),
                      ended : BOOLEAN] :
                  /\ r.n_in > 0 \/ r.n_out > 0
                  /\ r.ended => r.n_in > 0}

\* buf is written without having been cleared
BufAfterProcess_NoClear(buf, total_out, n_out) ==
    buf \o [k \in 1..n_out |-> total_out + k]

\* buf.clear() and the output process_vec appends to it
BufAfterProcess(buf, total_out, n_out) ==
    [k \in 1..n_out |-> total_out + k]

NoFeed == [fed |-> FALSE, offset |-> 0, in_before |-> 0, in_after |-> 0, round |-> 0]

XzIdle ==
    /\ xpc = "idle"
    /\ xzTotalIn = 0
    /\ xzTotalOut = 0
    /\ xzEnded = FALSE
    /\ chunkLen = 0
    /\ inAtCall = 0
    /\ endIn = 0
    /\ xbuf = <<>>
    /\ xfile = <<>>
    /\ feed = NoFeed
    /\ xchunks = 0

\* decode_chunk is called with the next chunk of the body.
DecodeChunkCall ==
    /\ xpc \in {"idle", "returned"}
    /\ xchunks < MaxChunks
    /\ \E len \in 0..MaxChunkLen :
         /\ chunkLen' = len
         /\ endIn' = xzTotalIn + len
    /\ inAtCall' = xzTotalIn
    /\ xbuf' = <<>>
    /\ feed' = NoFeed
    /\ xchunks' = xchunks + 1
    /\ xpc' = "loop"
    /\ UNCHANGED <<notXz, xzTotalIn, xzTotalOut, xzEnded, xfile>>

\* one iteration of the while loop: the rest of the chunk is given to the
\* decoder and what it put into buf is written to the file; write_all of an
\* empty buf writes nothing and cannot fail; a write_all that fails has
\* written what it could, some of buf from its start but not all of it.
\* When process_vec fails decode_chunk returns the error and what is in
\* buf is not written.
DecodeChunkStep ==
    /\ xpc = "loop"
    /\ xzTotalIn < endIn
    /\ LET offset == FeedOffset(chunkLen, endIn - xzTotalIn)
       IN \E r \in ProcessVec(chunkLen - offset, XzBufCapacity, xzTotalOut, xzEnded) :
            /\ xzTotalIn' = xzTotalIn + r.n_in
            /\ xzTotalOut' = xzTotalOut + r.n_out
            /\ xzEnded' = r.ended
            /\ xbuf' = BufAfterProcess(xbuf, xzTotalOut, r.n_out)
            /\ feed' = [fed |-> TRUE, offset |-> offset, in_before |-> xzTotalIn,
                         in_after |-> xzTotalIn + r.n_in, round |-> 1 - feed.round]
            /\ IF ~r.ok
               THEN xpc' = "error" /\ UNCHANGED xfile
               ELSE \/ xfile' = xfile \o xbuf' /\ UNCHANGED xpc
                    \/ /\ xbuf' # <<>>
                       /\ xpc' = "error"
                       /\ \E written \in WrittenBeforeFailure(xbuf') \ {xbuf'} :
                              xfile' = xfile \o written
    /\ UNCHANGED <<notXz, chunkLen, inAtCall, endIn, xchunks>>

\* the decoder has consumed the chunk: decode_chunk returns Ok(()).
DecodeChunkReturn ==
    /\ xpc = "loop"
    /\ ~(xzTotalIn < endIn)
    /\ xpc' = "returned"
    /\ UNCHANGED <<notXz, xzTotalIn, xzTotalOut, xzEnded, chunkLen, inAtCall, endIn,
                   xbuf, xfile, feed, xchunks>>

\* =================================================================
\* get_packages and like_from_wildcard (db.rs 18-67, the same code in
\* bin/index-repo.rs 114-161)
\* =================================================================
\* Wildcards, patterns and capability names are sequences of characters.
WildcardChars == {"a", "*", "?", "%", "_", "\\"}
NameChars == {"a", "A", "_", "\\"}
Arches == {"x86_64", "i686"}

Wildcards == SeqsUpTo(WildcardChars, MaxWildcardLen)
CapabilityNames == SeqsUpTo(NameChars, MaxNameLen)

\* a translation that escapes nothing
LikeFromWildcardChar_NoEscape(c) ==
    CASE c = "*" -> <<"%">>
      [] c = "?" -> <<"_">>
      [] OTHER -> <<c>>

\* like_from_wildcard, the match on one character
LikeFromWildcardChar(c) ==
    CASE c = "*" -> <<"%">>
      [] c = "?" -> <<"_">>
      [] c = "%" -> <<"\\", "%">>
      [] c = "_" -> <<"\\", "_">>
      [] c = "\\" -> <<"\\", "\\">>
      [] OTHER -> <<c>>

\* like_from_wildcard: s.chars().flat_map(..).collect()
RECURSIVE LikeFromWildcard(_)
LikeFromWildcard(s) ==
    IF s = <<>> THEN <<>>
    ELSE LikeFromWildcardChar(Head(s)) \o LikeFromWildcard(Tail(s))

\* SQLite compares the characters of LIKE without regard to ASCII case.
AsciiLower(c) == IF c = "A" THEN "a" ELSE c

\* name LIKE pattern as SQLite evaluates it when the query has no ESCAPE
\* clause: % is any run of characters, _ is any one character, and every
\* other character of the pattern, the backslash included, stands for
\* itself.
RECURSIVE LikeMatch(_, _)
LikeMatch(pattern, name) ==
    IF pattern = <<>> THEN name = <<>>
    ELSE IF Head(pattern) = "%"
    THEN \E k \in 0..Len(name) : LikeMatch(Tail(pattern), SubSeq(name, k + 1, Len(name)))
    ELSE IF name = <<>> THEN FALSE
    ELSE IF Head(pattern) = "_" THEN LikeMatch(Tail(pattern), Tail(name))
    ELSE /\ AsciiLower(Head(pattern)) = AsciiLower(Head(name))
         /\ LikeMatch(Tail(pattern), Tail(name))

\* the primary catalog: one package whose architecture and required
\* capability vary, next to one that is fixed
Catalogs ==
    {{[pkgKey |-> 1, arch |-> a, requires |-> r],
      [pkgKey |-> 2, arch |-> "i686", requires |-> {<<"a">>}]} :
        a \in Arches, r \in {{}} \cup {{n} : n \in CapabilityNames}}

\* Option<Vec<String>>: None, or Some of a list
None == [some |-> FALSE, list |-> <<>>]
Some(list) == [some |-> TRUE, list |-> list]

ArchFilters == {None, Some(<<"x86_64">>)}
RequirementFilters ==
    {None, Some(<<>>)}
    \cup {Some(<<w>>) : w \in Wildcards}
    \cup {Some(<<w, <<"a">>>>) : w \in Wildcards}

\* get_packages: the packages the query loads; the fold over an empty list
\* of requirements panics on unwrap.
GetPackages(rpm_packages, arch_filter, requirements) ==
    IF requirements.some /\ requirements.list = <<>>
    THEN [ok |-> FALSE, panicked |-> TRUE, packages |-> {}]
    ELSE [ok |-> TRUE, panicked |-> FALSE,
          packages |->
            {p \in rpm_packages :
               /\ requirements.some =>
                    \E name \in p.requires : \E i \in DOMAIN requirements.list :
                        LikeMatch(LikeFromWildcard(requirements.list[i]), name)
               /\ arch_filter.some =>
                    \E i \in DOMAIN arch_filter.list : p.arch = arch_filter.list[i]}]

NoCall ==
    [called |-> FALSE, arches |-> None, requirements |-> None, patterns |-> <<>>,
     result |-> [ok |-> FALSE, panicked |-> FALSE, packages |-> {}]]

LikeIdle ==
    /\ catalog = {}
    /\ gpLast = NoCall

LikeInit ==
    /\ catalog \in Catalogs
    /\ gpLast = NoCall

\* get_packages is called; the connection or the query may fail.
GetPackagesCall ==
    /\ ~gpLast.called
    /\ \E a \in ArchFilters, r \in RequirementFilters :
         \E res \in {GetPackages(catalog, a, r),
                     [ok |-> FALSE, panicked |-> FALSE, packages |-> {}]} :
           gpLast' = [called |-> TRUE, arches |-> a, requirements |-> r,
                      patterns |-> [i \in DOMAIN r.list |-> LikeFromWildcard(r.list[i])],
                      result |-> res]
    /\ UNCHANGED <<notLike, catalog>>

\* =================================================================
\* repomd::Document::parse (repomd.rs 7-47): the structs that
\* serde_xml_rs fills from a repomd.xml document
\* =================================================================
\* An XML element is [name, attrs, children, text]: attrs a sequence of
\* <<name, value>> pairs, children a sequence of elements, text a sequence
\* of characters.
Elem(name, attrs, children, text) ==
    [name |-> name, attrs |-> attrs, children |-> children, text |-> text]

ChildrenNamed(e, name) == SelectSeq(e.children, LAMBDA c : c.name = name)
AttrsNamed(e, name) == SelectSeq(e.attrs, LAMBDA a : a[1] = name)

DecimalDigits == <<"0", "1", "2", "3", "4", "5", "6", "7", "8", "9">>
IsDigit(c) == \E d \in 1..10 : DecimalDigits[d] = c
DigitValue(c) == (CHOOSE d \in 1..10 : DecimalDigits[d] = c) - 1

RECURSIVE DecimalValue(_)
DecimalValue(chars) ==
    IF chars = <<>> THEN 0
    ELSE DecimalValue(SubSeq(chars, 1, Len(chars) - 1)) * 10 + DigitValue(chars[Len(chars)])

\* the text of an i64 field: digits, with an optional sign in front
ParseI64(chars) ==
    LET signed == chars # <<>> /\ chars[1] \in {"-", "+"}
        digits == IF signed THEN Tail(chars) ELSE chars
    IN IF digits # <<>> /\ \A k \in 1..Len(digits) : IsDigit(digits[k])
       THEN [ok |-> TRUE,
             value |-> IF signed /\ chars[1] = "-" THEN 0 - DecimalValue(digits)
                       ELSE DecimalValue(digits)]
       ELSE [ok |-> FALSE, value |-> 0]

NoChecksum == [tpe |-> "", hexdigest |-> <<>>]
Failed(v) == [ok |-> FALSE, value |-> v]
Parsed(v) == [ok |-> TRUE, value |-> v]
Absent_(v) == [some |-> FALSE, value |-> v]
Present(v) == [some |-> TRUE, value |-> v]

\* struct Checksum: `type` from the attribute, hexdigest from the text
\* (`$value`); an element without text has no `$value`, and the field has
\* no default: missing field.
DeserializeChecksum(e) ==
    LET tpe == AttrsNamed(e, "type")
    IN IF Len(tpe) # 1 \/ e.text = <<>> THEN Failed(NoChecksum)
       ELSE Parsed([tpe |-> tpe[1][2], hexdigest |-> e.text])

\* struct Location: href from the attribute
DeserializeLocation(e) ==
    LET href == AttrsNamed(e, "href")
    IN IF Len(href) # 1 THEN Failed([href |-> <<>>])
       ELSE Parsed([href |-> href[1][2]])

\* a field of a struct that is one child element: it must be there once
Required(found) == Len(found) = 1

\* an Option field: the element is there once or not at all
Optional(found) == Len(found) <= 1

\* a Data whose optional fields are never filled
OptionalChecksum_Dropped(found) == Parsed(Absent_(NoChecksum))

\* open_checksum: Option<Checksum>
OptionalChecksum(found) ==
    IF found = <<>> THEN Parsed(Absent_(NoChecksum))
    ELSE LET c == DeserializeChecksum(found[1])
         IN IF c.ok THEN Parsed(Present(c.value)) ELSE Failed(Absent_(NoChecksum))

\* open_size: Option<i64>
OptionalI64(found) ==
    IF found = <<>> THEN Parsed(Absent_(0))
    ELSE LET n == ParseI64(found[1].text)
         IN IF n.ok THEN Parsed(Present(n.value)) ELSE Failed(Absent_(0))

NoData ==
    [tpe |-> "", checksum |-> NoChecksum, open_checksum |-> Absent_(NoChecksum),
     location |-> [href |-> <<>>], timestamp |-> 0, size |-> 0, open_size |-> Absent_(0)]

\* struct Data: every field but open_checksum and open_size is required;
\* elements it has no field for are ignored.
DeserializeData(e) ==
    LET tpe == AttrsNamed(e, "type")
        checksum == ChildrenNamed(e, "checksum")
        open_checksum == ChildrenNamed(e, "open-checksum")
        location == ChildrenNamed(e, "location")
        timestamp == ChildrenNamed(e, "timestamp")
        size == ChildrenNamed(e, "size")
        open_size == ChildrenNamed(e, "open-size")
    IN IF ~(/\ Len(tpe) = 1
            /\ Required(checksum) /\ Required(location)
            /\ Required(timestamp) /\ Required(size)
            /\ Optional(open_checksum) /\ Optional(open_size))
       THEN Failed(NoData)
       ELSE LET c == DeserializeChecksum(checksum[1])
                oc == OptionalChecksum(open_checksum)
                l == DeserializeLocation(location[1])
                t == ParseI64(timestamp[1].text)
                s == ParseI64(size[1].text)
                os == OptionalI64(open_size)
            IN IF ~(c.ok /\ oc.ok /\ l.ok /\ t.ok /\ s.ok /\ os.ok)
               THEN Failed(NoData)
               ELSE Parsed([tpe |-> tpe[1][2], checksum |-> c.value,
                            open_checksum |-> oc.value, location |-> l.value,
                            timestamp |-> t.value, size |-> s.value,
                            open_size |-> os.value])

NoDocument == [revision |-> 0, data |-> <<>>]

\* Document::parse: struct Document has revision: i64 and data: Vec<Data>,
\* the <data> elements in the order of the document; a Vec field with no
\* element at all is a missing field.
DocumentParse(root) ==
    LET revision == ChildrenNamed(root, "revision")
        found == ChildrenNamed(root, "data")
        entries == [i \in 1..Len(found) |-> DeserializeData(found[i])]
    IN IF ~Required(revision) \/ found = <<>> THEN Failed(NoDocument)
       ELSE LET r == ParseI64(revision[1].text)
            IN IF ~r.ok \/ \E i \in 1..Len(found) : ~entries[i].ok
               THEN Failed(NoDocument)
               ELSE Parsed([revision |-> r.value,
                            data |-> [i \in 1..Len(found) |-> entries[i].value]])

\* the documents parsed: <data> elements made of a choice of their parts
DataParts ==
    {"type", "checksum", "open-checksum", "location", "timestamp", "size", "open-size"}

PartSets ==
    {DataParts, DataParts \ {"open-checksum", "open-size"}, DataParts \ {"open-size"},
     DataParts \cup {"database_version"}, DataParts \cup {"bad-size"},
     DataParts \cup {"empty-checksum"}}
    \cup {DataParts \ {part} : part \in {"type", "checksum", "location", "timestamp", "size"}}

Part(parts, name, e) == IF name \in parts THEN <<e>> ELSE <<>>

DataElem(tpe, parts) ==
    Elem("data",
         IF "type" \in parts THEN <<<<"type", tpe>>>> ELSE <<>>,
         Part(parts, "checksum",
              Elem("checksum", <<<<"type", "sha256">>>>, <<>>,
                   IF "empty-checksum" \in parts THEN <<>> ELSE <<"9", "1">>))
         \o Part(parts, "open-checksum",
                 Elem("open-checksum", <<<<"type", "sha256">>>>, <<>>, <<"e", "4">>))
         \o Part(parts, "location", Elem("location", <<<<"href", <<"p">>>>>>, <<>>, <<>>))
         \o Part(parts, "timestamp", Elem("timestamp", <<>>, <<>>, <<"1", "5">>))
         \o Part(parts, "size",
                 Elem("size", <<>>, <<>>,
                      IF "bad-size" \in parts THEN <<"1", "k">> ELSE <<"1", "6">>))
         \o Part(parts, "open-size", Elem("open-size", <<>>, <<>>, <<"-", "4">>))
         \o Part(parts, "database_version", Elem("database_version", <<>>, <<>>, <<"1", "0">>)),
         <<>>)

DataElems == {DataElem(t, ps) : t \in {"primary", "primary_db"}, ps \in PartSets}

Revisions == {<<>>, <<Elem("revision", <<>>, <<>>, <<"1", "5", "4">>)>>}

RepomdDocuments ==
    {Elem("repomd", <<>>, r \o d, <<>>) : r \in Revisions, d \in SeqsUpTo(DataElems, MaxDataEntries)}

NotParsed == [called |-> FALSE, result |-> Failed(NoDocument)]

RepomdIdle ==
    /\ repomdXml = Elem("repomd", <<>>, <<>>, <<>>)
    /\ parseLast = NotParsed

RepomdInit ==
    /\ repomdXml \in RepomdDocuments
    /\ parseLast = NotParsed

\* Document::parse is called on the document.
DocumentParseCall ==
    /\ ~parseLast.called
    /\ parseLast' = [called |-> TRUE, result |-> DocumentParse(repomdXml)]
    /\ UNCHANGED <<notRepomd, repomdXml>>

\* =================================================================
\* index_repo (index-repo.rs 326-362): loading the repomd and the primary
\* catalog, before the package pipelines
\* =================================================================
\* the documents the repository may serve as repodata/repomd.xml
LoadDataLists ==
    {<<DataElem("primary", DataParts), DataElem("primary_db", DataParts)>>,
     <<DataElem("primary", DataParts)>>,
     <<DataElem("primary_db", DataParts \ {"open-checksum", "open-size"})>>,
     <<DataElem("primary_db", DataParts \ {"location"})>>}

LoadDocuments ==
    {Elem("repomd", <<>>, r \o d, <<>>) : r \in Revisions, d \in LoadDataLists}

\* doc.data.iter().find(|data| data.tpe == "primary_db")
HasPrimaryDb(doc) == \E i \in 1..Len(doc.data) : doc.data[i].tpe = "primary_db"

PrimaryDbData(doc) ==
    doc.data[CHOOSE i \in 1..Len(doc.data) :
                 /\ doc.data[i].tpe = "primary_db"
                 /\ \A j \in 1..(i - 1) : doc.data[j].tpe # "primary_db"]

\* an index_repo that does not ask for the open-checksum
HasOpenChecksum_NotAsked(d) == TRUE

\* primary_db_data.open_checksum.as_ref().ok_or_else(..)
HasOpenChecksum(d) == d.open_checksum.some

LoadIdle ==
    /\ loadPc = "idle"
    /\ loadErr = "none"

LoadInit ==
    /\ loadPc = "fetch_repomd"
    /\ loadErr = "none"

\* `?` on a failed step: index_repo returns the error
LoadFails(cause) ==
    /\ loadPc' = "failed"
    /\ loadErr' = cause
    /\ result' = "err"

LoadGoesOn(next) ==
    /\ loadPc' = next
    /\ UNCHANGED <<loadErr, result>>

\* index_repo, lines 335-338 and fetch_repomd (38-48): the URI of repomd.xml is
\* parsed, the document is fetched and its body is parsed.
FetchRepomd ==
    /\ loadPc = "fetch_repomd"
    /\ \E outcome \in {"malformed_uri", "fetch_failed", "fetched"} :
         IF outcome # "fetched" THEN LoadFails(outcome)
         ELSE IF ~DocumentParse(repomdXml).ok THEN LoadFails("malformed_repomd")
         ELSE LoadGoesOn("find_primary_db")
    /\ UNCHANGED loadFrame

\* index_repo, lines 339-342: the primary_db entry of the document
FindPrimaryDb ==
    /\ loadPc = "find_primary_db"
    /\ IF HasPrimaryDb(DocumentParse(repomdXml).value)
       THEN LoadGoesOn("persist_repo")
       ELSE LoadFails("missing_primary_db")
    /\ UNCHANGED loadFrame

\* index_repo, line 343: persist_repo(&conn, &repo_uri, &primary_db_data)?
IndexRepoPersistRepo ==
    /\ loadPc = "persist_repo"
    /\ repoId = 0
    /\ \E r \in PersistRepo(repoRows, "u1",
                            PrimaryDbData(DocumentParse(repomdXml).value).location.href) :
        /\ repoRows' = r.table
        /\ repoId' = r.rowid
        /\ IF r.ok THEN LoadGoesOn("open_checksum") ELSE LoadFails("persist_repo")
    /\ UNCHANGED <<fetchVars, rpmVars, xzVars, likeVars, repomdVars, blockingVars, lockVars,
                   cpioVars, jobs, semVars, started, ppc, entryIdx, symIdx, connOwner, pkgId, fileId, pkgRows, fileRows,
                   symRows, strRows, dbLast, dbCalls, skipped>>

\* index_repo, lines 344-347: the open-checksum of the primary_db entry
CloneOpenChecksum ==
    /\ loadPc = "open_checksum"
    /\ IF HasOpenChecksum(PrimaryDbData(DocumentParse(repomdXml).value))
       THEN LoadGoesOn("fetch_primary_db")
       ELSE LoadFails("missing_open_checksum")
    /\ UNCHANGED loadFrame

\* index_repo, lines 348-352: fetch_file of the primary catalog
FetchPrimaryDb ==
    /\ loadPc = "fetch_primary_db"
    /\ \E ok \in BOOLEAN :
         IF ok THEN LoadGoesOn("get_packages") ELSE LoadFails("fetch_primary_db")
    /\ UNCHANGED loadFrame

\* index_repo, line 353: get_packages opens the catalog and selects the
\* packages; after it the pipelines are set up.
LoadPackages ==
    /\ loadPc = "get_packages"
    /\ \E ok \in BOOLEAN :
         IF ok THEN LoadGoesOn("pipelines") ELSE LoadFails("get_packages")
    /\ UNCHANGED loadFrame

\* =================================================================
\* blocking (tokio.rs 17-23): a closure handed to the blocking-thread
\* facility of the thread pool
\* =================================================================
\* what f returns when it is run
FResults ==
    {[ok |-> TRUE, value |-> 1], [ok |-> TRUE, value |-> 2], [ok |-> FALSE, value |-> 0]}

NoBlockingResult == [ok |-> FALSE, value |-> 0, error |-> "none"]

\* a slot that gives its closure again and again
OptionTake_Kept(slot) == [some |-> slot, left |-> slot]

\* f.take(): what was in the Option, and the None it leaves there
OptionTake(slot) == [some |-> slot, left |-> FALSE]

\* tokio_threadpool::blocking(f): an error off the pool; f is run when the
\* pool has blocking capacity left; otherwise f is dropped, the task is
\* registered for a notification and NotReady is answered.
ThreadpoolBlocking(on_pool, in_use) ==
    IF ~on_pool THEN "error"
    ELSE IF in_use < MaxBlocking THEN "ready"
    ELSE "not_ready"

BlockingIdle ==
    /\ bpc = "idle"
    /\ fSlot = FALSE
    /\ fRuns = 0
    /\ fResult = [ok |-> FALSE, value |-> 0]
    /\ bres = NoBlockingResult
    /\ blockingInUse = 0
    /\ onPool = FALSE
    /\ polls = 0
    /\ bcalls = 0

\* blocking(f) was called: let mut f = Some(f); and the future of poll_fn has
\* not been polled yet.
BlockingInit ==
    /\ bpc = "pending"
    /\ fSlot = TRUE
    /\ fRuns = 0
    /\ fResult \in FResults
    /\ bres = NoBlockingResult
    /\ blockingInUse \in 0..MaxBlocking
    /\ onPool \in BOOLEAN
    /\ polls = 0
    /\ bcalls = 1

\* one poll of the future: the closure of poll_fn evaluates
\* f.take().unwrap() and hands the result to tokio_threadpool::blocking.
BlockingPoll ==
    /\ bpc = "pending"
    /\ polls' = polls + 1
    /\ LET taken == OptionTake(fSlot)
       IN IF ~taken.some
          THEN /\ bpc' = "panicked"
               /\ UNCHANGED <<fSlot, fRuns, bres>>
          ELSE /\ fSlot' = taken.left
               /\ LET answer == ThreadpoolBlocking(onPool, blockingInUse)
                  IN CASE answer = "ready" ->
                            /\ fRuns' = fRuns + 1
                            /\ bres' = [ok |-> fResult.ok, value |-> fResult.value,
                                        error |-> IF fResult.ok THEN "none" ELSE "f"]
                            /\ bpc' = "returned"
                       [] answer = "error" ->
                            /\ bres' = [ok |-> FALSE, value |-> 0, error |-> "blocking"]
                            /\ bpc' = "returned"
                            /\ UNCHANGED fRuns
                       [] OTHER ->
                            /\ bpc' = "pending"
                            /\ UNCHANGED <<fRuns, bres>>
    /\ UNCHANGED <<notBlocking, fResult, blockingInUse, onPool, bcalls>>

\* the caller goes on to its next write and calls blocking with another
\* closure
BlockingCall ==
    /\ bpc = "returned"
    /\ bcalls < MaxBlockingCalls
    /\ bcalls' = bcalls + 1
    /\ bpc' = "pending"
    /\ fSlot' = TRUE
    /\ fRuns' = 0
    /\ polls' = 0
    /\ bres' = NoBlockingResult
    /\ fResult' \in FResults
    /\ UNCHANGED <<notBlocking, blockingInUse, onPool>>

\* another task of the pool enters a blocking section
OtherEntersBlocking ==
    /\ bpc \in {"pending", "returned"}
    /\ blockingInUse < MaxBlocking
    /\ blockingInUse' = blockingInUse + 1
    /\ UNCHANGED <<notBlocking, bpc, fSlot, fRuns, fResult, bres, onPool, polls, bcalls>>

\* another task of the pool leaves its blocking section
OtherLeavesBlocking ==
    /\ bpc \in {"pending", "returned"}
    /\ blockingInUse > 0
    /\ blockingInUse' = blockingInUse - 1
    /\ UNCHANGED <<notBlocking, bpc, fSlot, fRuns, fResult, bres, onPool, polls, bcalls>>

\* =================================================================
\* The locks of a pipeline: the HTTP permit (http.rs checked_fetch), the I/O
\* permit (sync.rs semaphore_acquire), the Store lock (index_package) and the
\* metrics lock (metrics.rs update_metrics, log_metrics)
\* =================================================================
\* the task that logs the metrics; the pipelines are 1..NumPackages
Monitor == NumPackages + 1

\* a guard that is never dropped
MutexGuardDrop_Leaked(owner) == owner

\* the MutexGuard goes out of scope: the mutex is free
MutexGuardDrop(owner) == 0

LocksInFlight == {p \in Packages : lpc[p] \notin {"queued", "ok", "failed", "cancelled"}}

\* where a pipeline is suspended in an await: it waits for a permit, for
\* the response, or for its I/O pass
LockAwaitPoints ==
    {"http_acquire", "http_get", "io_acquire", "io_held", "headers", "read_entry"}

\* the Store call a pipeline is at: persist_package before the first
\* entry, then for every entry persist_file and, for a file that is an
\* ELF object, persist_elf_symbol for each of its dynamic symbols
LocksSection(p) ==
    IF entryIdx[p] = 0 THEN "package" ELSE IF symIdx[p] = 0 THEN "file" ELSE "symbol"

\* the permits the scope guards of n dropped futures give back
RECURSIVE ReleasedByDrop(_, _)
ReleasedByDrop(avail, n) ==
    IF n = 0 THEN avail ELSE ReleasedByDrop(PermitRelease(avail, "acquired"), n - 1)

\* index_repo, lines 359-360: pipeline p has returned Err, in a poll of the
\* stream during which every other pipeline is suspended.  The stream
\* yields the error, collect() fails with it and `?` returns it from
\* index_repo: the stream is dropped with the futures in flight, whose
\* guards give their permits back, and no other package is started.  http
\* and io are the semaphores after p's own guards have been dropped.
LocksPipelineFails(p, http, io) ==
    LET others == LocksInFlight \ {p}
    IN /\ \A q \in others : lpc[q] \in LockAwaitPoints
       /\ lpc' = [q \in Packages |->
                    IF q = p THEN "failed"
                    ELSE IF q \in others THEN "cancelled" ELSE lpc[q]]
       /\ httpAvail' = ReleasedByDrop(http, Cardinality({q \in others : lpc[q] = "http_get"}))
       /\ ioAvail' = ReleasedByDrop(io, Cardinality({q \in others : lpc[q] = "io_held"}))

LocksIdle ==
    /\ lpc = [p \in Packages |-> "idle"]
    /\ metricsOwner = 0
    /\ monPc = "idle"

\* monitor_metrics, lines 147-148: the loop starts with a call of log_metrics
LocksInit ==
    /\ lpc = [p \in Packages |-> "queued"]
    /\ metricsOwner = 0
    /\ monPc = "log_metrics"

\* index_repo, lines 355-358: buffer_unordered(jobs) takes the next future,
\* as long as no pipeline has failed, and polls it.  fetch_file, lines
\* 100-108, runs in that first poll up to its first await: with the cached
\* copy of the package no fetch is made; otherwise the URI is parsed and the
\* file created, and either of the two can fail, which `?` returns before
\* any permit is asked for; else checked_fetch is called.
LocksStart(p) ==
    /\ lpc[p] = "queued"
    /\ \A q \in Packages : q < p => lpc[q] # "queued"
    /\ \A q \in Packages : lpc[q] # "failed"
    /\ BufferUnorderedHasRoom(Cardinality(LocksInFlight), jobs)
    /\ \E outcome \in {"cached", "malformed_uri", "create_file_failed", "fetch"} :
         CASE outcome = "cached" ->
                /\ lpc' = [lpc EXCEPT ![p] = "io_acquire"]
                /\ UNCHANGED <<httpAvail, ioAvail>>
           [] outcome = "fetch" ->
                /\ lpc' = [lpc EXCEPT ![p] = "http_acquire"]
                /\ UNCHANGED <<httpAvail, ioAvail>>
           [] OTHER -> LocksPipelineFails(p, httpAvail, ioAvail)
    /\ UNCHANGED <<lockFrame, lockIdx, connOwner, metricsOwner, monPc>>

\* checked_fetch, lines 24-26: poll_acquire of the HTTP permit succeeds
LocksHttpAcquire(p) ==
    /\ lpc[p] = "http_acquire"
    /\ PollAcquireReady(httpAvail)
    /\ httpAvail' = PollAcquire(httpAvail)
    /\ lpc' = [lpc EXCEPT ![p] = "http_get"]
    /\ UNCHANGED <<lockFrame, lockIdx, ioAvail, connOwner, metricsOwner, monPc>>

\* checked_fetch, lines 28-38: the fetch completes, with a response or an
\* error, and the deferred release runs
LocksHttpReturn(p) ==
    /\ lpc[p] = "http_get"
    /\ \/ /\ httpAvail' = DeferRelease(httpAvail, "acquired")
          /\ lpc' = [lpc EXCEPT ![p] = "io_acquire"]
          /\ UNCHANGED ioAvail
       \/ LocksPipelineFails(p, DeferRelease(httpAvail, "acquired"), ioAvail)
    /\ UNCHANGED <<lockFrame, lockIdx, connOwner, metricsOwner, monPc>>

\* semaphore_acquire, lines 16-23: poll_acquire of the I/O permit succeeds
LocksIoAcquire(p) ==
    /\ lpc[p] = "io_acquire"
    /\ PollAcquireReady(ioAvail)
    /\ ioAvail' = PollAcquire(ioAvail)
    /\ lpc' = [lpc EXCEPT ![p] = "io_held"]
    /\ UNCHANGED <<lockFrame, lockIdx, httpAvail, connOwner, metricsOwner, monPc>>

\* the decode-and-hash pass ends, well or not, and the SemaphoreGuard is dropped
LocksIoRelease(p) ==
    /\ lpc[p] = "io_held"
    /\ \/ /\ ioAvail' = SemaphoreGuardDrop(ioAvail, "acquired")
          /\ lpc' = [lpc EXCEPT ![p] = "store_lock"]
          /\ UNCHANGED httpAvail
       \/ LocksPipelineFails(p, httpAvail, SemaphoreGuardDrop(ioAvail, "acquired"))
    /\ UNCHANGED <<lockFrame, lockIdx, connOwner, metricsOwner, monPc>>

\* index_package, line 306, index_file, line 258, index_elf_file, line 223:
\* conn.lock(); the persist function is called
LocksStoreLock(p) ==
    /\ lpc[p] = "store_lock"
    /\ MutexLockReady(connOwner)
    /\ connOwner' = p
    /\ lpc' = [lpc EXCEPT ![p] = "persist"]
    /\ UNCHANGED <<lockFrame, lockIdx, httpAvail, ioAvail, metricsOwner, monPc>>

\* persist_package, line 130, persist_file, line 151: the insert fails, `?`
\* returns before update_metrics and the guard of the Store is dropped.
\* The error of persist_package is the error of the pipeline; the error of
\* index_file is logged and the next entry is read (index_package, lines
\* 319-323).
LocksPersistFails(p) ==
    /\ lpc[p] = "persist"
    /\ LocksSection(p) # "symbol"
    /\ connOwner' = MutexGuardDrop(connOwner)
    /\ IF LocksSection(p) = "package"
       THEN LocksPipelineFails(p, httpAvail, ioAvail)
       ELSE /\ lpc' = [lpc EXCEPT ![p] = "read_entry"]
            /\ UNCHANGED <<httpAvail, ioAvail>>
    /\ UNCHANGED <<lockFrame, lockIdx, metricsOwner, monPc>>

\* index_elf_file, lines 222-230: persist_elf_symbol returns, well or not
\* (its error is logged), the guard of the Store is dropped at the end of
\* the iteration, and the loop goes to the next symbol; after the last
\* one index_file returns and the next entry is read.
LocksPersistElfSymbol(p) ==
    /\ lpc[p] = "persist"
    /\ LocksSection(p) = "symbol"
    /\ connOwner' = MutexGuardDrop(connOwner)
    /\ IF symIdx[p] < PkgEntries(p)[entryIdx[p]]
       THEN /\ symIdx' = [symIdx EXCEPT ![p] = @ + 1]
            /\ lpc' = [lpc EXCEPT ![p] = "store_lock"]
       ELSE /\ symIdx' = [symIdx EXCEPT ![p] = 0]
            /\ lpc' = [lpc EXCEPT ![p] = "read_entry"]
    /\ UNCHANGED <<lockFrame, entryIdx, httpAvail, ioAvail, metricsOwner, monPc>>

\* persist_package, line 131, persist_file, line 152, and update_metrics,
\* lines 73-75: STATE.lock(), inside the Store lock
LocksUpdateMetricsLock(p) ==
    /\ lpc[p] = "persist"
    /\ LocksSection(p) # "symbol"
    /\ MutexLockReady(metricsOwner)
    /\ metricsOwner' = p
    /\ lpc' = [lpc EXCEPT ![p] = "metrics_held"]
    /\ UNCHANGED <<lockFrame, lockIdx, httpAvail, ioAvail, connOwner, monPc>>

\* update_metrics, lines 76-78: f runs on the metrics and the guard is dropped
LocksUpdateMetricsReturn(p) ==
    /\ lpc[p] = "metrics_held"
    /\ metricsOwner' = MutexGuardDrop(metricsOwner)
    /\ lpc' = [lpc EXCEPT ![p] = "store_held"]
    /\ UNCHANGED <<lockFrame, lockIdx, httpAvail, ioAvail, connOwner, monPc>>

\* index_package, line 308, index_file, line 260: the guard of the Store
\* goes out of scope.  After persist_package the pipeline awaits
\* read_all_headers; after persist_file, goblin::peek tells whether the
\* file is an ELF object with dynamic symbols to persist, and otherwise the
\* next entry is read.
LocksStoreUnlock(p) ==
    /\ lpc[p] = "store_held"
    /\ connOwner' = MutexGuardDrop(connOwner)
    /\ IF LocksSection(p) = "package"
       THEN lpc' = [lpc EXCEPT ![p] = "headers"] /\ UNCHANGED symIdx
       ELSE IF PkgEntries(p)[entryIdx[p]] > 0
       THEN lpc' = [lpc EXCEPT ![p] = "store_lock"] /\ symIdx' = [symIdx EXCEPT ![p] = 1]
       ELSE lpc' = [lpc EXCEPT ![p] = "read_entry"] /\ UNCHANGED symIdx
    /\ UNCHANGED <<lockFrame, entryIdx, httpAvail, ioAvail, metricsOwner, monPc>>

\* index_package, line 309: the await of read_all_headers resolves
LocksReadAllHeaders(p) ==
    /\ lpc[p] = "headers"
    /\ \/ /\ lpc' = [lpc EXCEPT ![p] = "read_entry"]
          /\ UNCHANGED <<httpAvail, ioAvail>>
       \/ LocksPipelineFails(p, httpAvail, ioAvail)
    /\ UNCHANGED <<lockFrame, lockIdx, connOwner, metricsOwner, monPc>>

\* index_package, lines 312-316: the await of read_entry resolves, to the
\* next entry, which index_file is called with, to None at the trailer,
\* which ends the pipeline with Ok, or to an error
LocksReadEntry(p) ==
    /\ lpc[p] = "read_entry"
    /\ \/ /\ IF entryIdx[p] < Len(PkgEntries(p))
             THEN /\ entryIdx' = [entryIdx EXCEPT ![p] = @ + 1]
                  /\ lpc' = [lpc EXCEPT ![p] = "store_lock"]
             ELSE /\ lpc' = [lpc EXCEPT ![p] = "ok"]
                  /\ UNCHANGED entryIdx
          /\ UNCHANGED <<httpAvail, ioAvail>>
       \/ LocksPipelineFails(p, httpAvail, ioAvail) /\ UNCHANGED entryIdx
    /\ UNCHANGED <<lockFrame, symIdx, connOwner, metricsOwner, monPc>>

\* monitor_metrics, line 149: the sleep of five seconds is over and the
\* loop calls log_metrics again, or the timer fails and `?` ends the task
MonitorWakes ==
    /\ monPc = "sleep"
    /\ monPc' \in {"log_metrics", "exited"}
    /\ UNCHANGED <<lockFrame, lockIdx, httpAvail, ioAvail, connOwner, metricsOwner, lpc>>

\* log_metrics, lines 101-103: STATE.lock()
MonitorLocks ==
    /\ monPc = "log_metrics"
    /\ MutexLockReady(metricsOwner)
    /\ metricsOwner' = Monitor
    /\ monPc' = "held"
    /\ UNCHANGED <<lockFrame, lockIdx, httpAvail, ioAvail, connOwner, lpc>>

\* log_metrics, lines 104-144: the snapshot is taken and the guard is
\* dropped; the table is printed outside the lock.  monitor_metrics, lines
\* 148-149: with Ok the task sleeps, with Err `?` ends it.
MonitorUnlocks ==
    /\ monPc = "held"
    /\ metricsOwner' = MutexGuardDrop(metricsOwner)
    /\ monPc' \in {"sleep", "exited"}
    /\ UNCHANGED <<lockFrame, lockIdx, httpAvail, ioAvail, connOwner, lpc>>

PipelineStep(p) ==
    \/ LocksStart(p)
    \/ LocksHttpAcquire(p)
    \/ LocksHttpReturn(p)
    \/ LocksIoAcquire(p)
    \/ LocksIoRelease(p)
    \/ LocksStoreLock(p)
    \/ LocksPersistFails(p)
    \/ LocksUpdateMetricsLock(p)
    \/ LocksUpdateMetricsReturn(p)
    \/ LocksStoreUnlock(p)
    \/ LocksPersistElfSymbol(p)
    \/ LocksReadAllHeaders(p)
    \/ LocksReadEntry(p)

\* =================================================================
\* The specifications
\* =================================================================
\* every component modelled on its own is at rest
CompIdle ==
    /\ files = [p \in Paths |-> Absent]
    /\ FetchIdle
    /\ RpmIdle
    /\ XzIdle
    /\ LikeIdle
    /\ RepomdIdle
    /\ LoadIdle
    /\ BlockingIdle
    /\ LocksIdle

InitCpio ==
    /\ jobs = 1
    /\ SemInit
    /\ SchedInit
    /\ CpioInit
    /\ DbIdle
    /\ CompIdle

NextCpio ==
    \/ WalkReadEntryStart
    \/ WalkReadEntryData
    \/ WalkSkipEntryData
    \/ SkipRead
    \/ SkipReturn
    \/ WalkReadEntryEnd

SpecCpio == InitCpio /\ [][NextCpio]_vars

\* the walk is one task that the executor keeps polling: an iteration of
\* skip_entry_data that changes something, and its return, are taken in the end
SpecCpioFair == SpecCpio /\ WF_vars(SkipRead \/ SkipReturn)

InitDb ==
    /\ jobs = 1
    /\ SemInit
    /\ SchedInit
    /\ CpioIdle
    /\ DbIdle
    /\ CompIdle

NextDb ==
    \/ DbPersistRepo
    \/ DbPersistPackage
    \/ DbPersistFile
    \/ DbPersistElfSymbols
    \/ DbPersistElfSymbol

SpecDb == InitDb /\ [][NextDb]_vars

InitFetch ==
    /\ jobs = 1
    /\ SemInit
    /\ SchedInit
    /\ CpioIdle
    /\ DbIdle
    /\ FetchInit
    /\ RpmIdle
    /\ XzIdle
    /\ LikeIdle
    /\ RepomdIdle
    /\ LoadIdle
    /\ BlockingIdle
    /\ LocksIdle

NextFetch ==
    \/ FetchFileCall
    \/ FetchFileResponse
    \/ DecodeResponseChunk
    \/ DecodeResponseEnd

SpecFetch == InitFetch /\ [][NextFetch]_vars

Init ==
    /\ jobs \in 0..MaxJobs
    /\ SemInit
    /\ SchedInit
    /\ CpioIdle
    /\ DbIdle
    /\ files = [p \in Paths |-> Absent]
    /\ FetchIdle
    /\ RpmIdle
    /\ XzIdle
    /\ LikeIdle
    /\ repomdXml \in LoadDocuments
    /\ parseLast = NotParsed
    /\ LoadInit
    /\ BlockingIdle
    /\ LocksIdle

Next ==
    \/ FetchRepomd
    \/ FindPrimaryDb
    \/ IndexRepoPersistRepo
    \/ CloneOpenChecksum
    \/ FetchPrimaryDb
    \/ LoadPackages
    \/ StartPipeline
    \/ \E p \in Packages : AwaitOk(p)
    \/ \E p \in Packages : AwaitErr(p)
    \/ \E p \in Packages : LockForPackage(p)
    \/ \E p \in Packages : PersistPackageOk(p)
    \/ \E p \in Packages : PersistPackageErr(p)
    \/ \E p \in Packages : ReadEntry(p)
    \/ \E p \in Packages : LockForFile(p)
    \/ \E p \in Packages : PersistFileOk(p)
    \/ \E p \in Packages : PersistFileErr(p)
    \/ \E p \in Packages : LockForSymbol(p)
    \/ \E p \in Packages : PersistSymbol(p)
    \/ CollectOk

Spec == Init /\ [][Next]_vars

InitRpm ==
    /\ jobs = 1
    /\ SemInit
    /\ SchedInit
    /\ CpioIdle
    /\ DbIdle
    /\ files = [p \in Paths |-> Absent]
    /\ FetchIdle
    /\ RpmInit
    /\ XzIdle
    /\ LikeIdle
    /\ RepomdIdle
    /\ LoadIdle
    /\ BlockingIdle
    /\ LocksIdle

NextRpm ==
    \/ RpmReadLead
    \/ RpmReadHeader
    \/ RpmReadIndexEntry
    \/ RpmReadStore
    \/ CallGetStringTag

SpecRpm == InitRpm /\ [][NextRpm]_vars

InitXz ==
    /\ jobs = 1
    /\ SemInit
    /\ SchedInit
    /\ CpioIdle
    /\ DbIdle
    /\ CompIdle

NextXz ==
    \/ DecodeChunkCall
    \/ DecodeChunkStep
    \/ DecodeChunkReturn

SpecXz == InitXz /\ [][NextXz]_vars

\* decode_chunk is synchronous code: an iteration that changes something, and
\* the return, are taken in the end
SpecXzFair == SpecXz /\ WF_vars(DecodeChunkStep) /\ WF_vars(DecodeChunkReturn)

InitLike ==
    /\ jobs = 1
    /\ SemInit
    /\ SchedInit
    /\ CpioIdle
    /\ DbIdle
    /\ files = [p \in Paths |-> Absent]
    /\ FetchIdle
    /\ RpmIdle
    /\ XzIdle
    /\ LikeInit
    /\ RepomdIdle
    /\ LoadIdle
    /\ BlockingIdle
    /\ LocksIdle

NextLike == GetPackagesCall

SpecLike == InitLike /\ [][NextLike]_vars

InitRepomd ==
    /\ jobs = 1
    /\ SemInit
    /\ SchedInit
    /\ CpioIdle
    /\ DbIdle
    /\ files = [p \in Paths |-> Absent]
    /\ FetchIdle
    /\ RpmIdle
    /\ XzIdle
    /\ LikeIdle
    /\ RepomdInit
    /\ LoadIdle
    /\ BlockingIdle
    /\ LocksIdle

NextRepomd == DocumentParseCall

SpecRepomd == InitRepomd /\ [][NextRepomd]_vars

InitBlocking ==
    /\ jobs = 1
    /\ SemInit
    /\ SchedInit
    /\ CpioIdle
    /\ DbIdle
    /\ files = [p \in Paths |-> Absent]
    /\ FetchIdle
    /\ RpmIdle
    /\ XzIdle
    /\ LikeIdle
    /\ RepomdIdle
    /\ LoadIdle
    /\ BlockingInit
    /\ LocksIdle

NextBlocking ==
    \/ BlockingPoll
    \/ BlockingCall
    \/ OtherEntersBlocking
    \/ OtherLeavesBlocking

SpecBlocking == InitBlocking /\ [][NextBlocking]_vars

InitLocks ==
    /\ jobs \in 0..MaxJobs
    /\ SemInit
    /\ SchedInit
    /\ CpioIdle
    /\ DbIdle
    /\ files = [p \in Paths |-> Absent]
    /\ FetchIdle
    /\ RpmIdle
    /\ XzIdle
    /\ LikeIdle
    /\ RepomdIdle
    /\ LoadIdle
    /\ BlockingIdle
    /\ LocksInit

NextLocks ==
    \/ \E p \in Packages : LocksStart(p)
    \/ \E p \in Packages : LocksHttpAcquire(p)
    \/ \E p \in Packages : LocksHttpReturn(p)
    \/ \E p \in Packages : LocksIoAcquire(p)
    \/ \E p \in Packages : LocksIoRelease(p)
    \/ \E p \in Packages : LocksStoreLock(p)
    \/ \E p \in Packages : LocksPersistFails(p)
    \/ \E p \in Packages : LocksUpdateMetricsLock(p)
    \/ \E p \in Packages : LocksUpdateMetricsReturn(p)
    \/ \E p \in Packages : LocksStoreUnlock(p)
    \/ \E p \in Packages : LocksPersistElfSymbol(p)
    \/ \E p \in Packages : LocksReadAllHeaders(p)
    \/ \E p \in Packages : LocksReadEntry(p)
    \/ MonitorWakes
    \/ MonitorLocks
    \/ MonitorUnlocks

SpecLocks == InitLocks /\ [][NextLocks]_vars

\* Every task is polled again when what it waits for may have changed, so a
\* step a pipeline can take is taken; the monitor holds the metrics lock for
\* one snapshot and sleeps in between, so a pipeline that waits for the
\* metrics lock gets it.
SpecLocksFair ==
    /\ SpecLocks
    /\ \A p \in Packages : WF_vars(PipelineStep(p))
    /\ \A p \in Packages : SF_vars(LocksUpdateMetricsLock(p))
    /\ WF_vars(MonitorUnlocks)

InitSem ==
    /\ jobs \in 0..MaxJobs
    /\ SemInit
    /\ SchedInit
    /\ CpioIdle
    /\ DbIdle
    /\ CompIdle

NextSem ==
    \/ \E c \in Clients : CheckedFetchCall(c)
    \/ \E c \in Clients : CheckedFetchAcquire(c)
    \/ \E c \in Clients : CheckedFetchReturn(c)
    \/ \E c \in Clients : BodyChunk(c)
    \/ \E c \in Clients : BodyEnd(c)
    \/ \E c \in Clients : SemaphoreAcquireCall(c)
    \/ \E c \in Clients : SemaphoreAcquireReturn(c)
    \/ \E c \in Clients : GuardScopeEnd(c)
    \/ \E c \in Clients : Cancel(c)
    \/ \E c \in Clients : NextCall(c)

SpecSem == InitSem /\ [][NextSem]_vars

\* ----------------------------------------------------------------- claims
\* the permits callers hold: acquired, or assigned to a caller that still
\* waits to be polled for it
HttpHeld ==
    Cardinality({c \in Clients : \/ httpPermit[c] = "acquired"
                                 \/ httpPermit[c] = "assigned" /\ cpc[c] = "http_acquire"})
IoHeld ==
    Cardinality({c \in Clients : \/ ioPermit[c] = "acquired"
                                 \/ ioPermit[c] = "assigned" /\ cpc[c] = "io_acquire"})

\* the permits assigned to the node of a Permit that was dropped
HttpLost == Cardinality({c \in Clients : httpPermit[c] = "assigned" /\ cpc[c] = "cancelled"})

\* C1: for each of the two semaphores of capacity jobs, the number of permits
\* held at any moment, over every interleaving of callers, is at most jobs.
C1_PermitsHeldAtMostJobs ==
    /\ HttpHeld <= jobs
    /\ IoHeld <= jobs

\* C1 witness: every HTTP permit is taken and one more caller waits for one.
C1_Witness ==
    /\ HttpHeld = jobs
    /\ \E c \in Clients : cpc[c] = "http_acquire"
    /\ \E c \in Clients : cpc[c] = "io_held"

\* C4 (as claimed): permits are conserved (held + available = capacity), and
\* on every exit path of checked_fetch and of the guard's scope, the drop of
\* the future at an await among them, the permit has gone back: a caller
\* outside those scopes holds none.
C4_PermitsConserved ==
    /\ HttpHeld + httpAvail = jobs
    /\ IoHeld + ioAvail = jobs
    /\ \A c \in Clients :
        /\ httpPermit[c] = "acquired" => cpc[c] = "http_get"
        /\ ioPermit[c] = "acquired" => cpc[c] = "io_held"

\* what does hold: every permit is held, available, or lost to the node of a
\* Permit of checked_fetch that was dropped while it waited; the I/O permits,
\* whose Permit is inside the guard from the start, are conserved.
PermitsAccounted ==
    /\ HttpHeld + HttpLost + httpAvail = jobs
    /\ IoHeld + ioAvail = jobs
    /\ httpAvail > 0 => \A i \in 1..Len(httpWaiters) : httpPermit[httpWaiters[i]] # "waiting"
    /\ \A c \in Clients :
        /\ httpPermit[c] = "acquired" => cpc[c] = "http_get"
        /\ ioPermit[c] = "acquired" => cpc[c] = "io_held"

\* C5 (as claimed): while a caller still consumes the response body it got from
\* checked_fetch, its HTTP permit is held.
C5_PermitHeldWhileBodyConsumed ==
    \A c \in Clients :
        (cpc[c] = "body" /\ chunksLeft[c] > 0) => httpPermit[c] = "acquired"

\* C2: the number of index_package futures started and not yet finished is at
\* most jobs in every reachable state.
C2_InFlightAtMostJobs == Cardinality(InFlight) <= jobs

\* C2 witness: jobs pipelines are in flight while a package that was started
\* after one of them has already finished.
C2_Witness ==
    /\ jobs = 2
    /\ Cardinality(InFlight) = 2
    /\ \E p, q \in Packages : p < q /\ p \in InFlight /\ ppc[q] = "ok"

\* C3: at most one pipeline is between conn.lock() and the drop of its guard,
\* and a pipeline that is about to write holds the lock.
C3_StoreLockExclusive ==
    /\ Cardinality({p \in Packages : ppc[p] \in LockedStates}) <= 1
    /\ \A p \in Packages : ppc[p] \in LockedStates => connOwner = p
    /\ connOwner # 0 => ppc[connOwner] \in LockedStates

\* C3 witness: one pipeline writes a symbol under the lock while another one
\* waits for the lock to write its file row.
C3_Witness ==
    \E p, q \in Packages :
        /\ ppc[p] = "persist_symbol"
        /\ ppc[q] = "lock_file"
        /\ connOwner = p

\* C6: the k-th header read of a walk starts at the offset where the k-th
\* entry's header starts, that is after the body and the padding of every
\* entry before it; no header read starts inside a body or its padding.
C6_HeaderReadsAtEntryStarts ==
    /\ \A i \in 1..Len(hdrOffs) : hdrOffs[i] = HeaderOff(arch, i)
    /\ wpc = "start" => off = HeaderOff(arch, Len(hdrOffs) + 1)

\* C6 witness: a finished walk over two members and the trailer, one member
\* read in full and its symbol stored, the other skipped.
C6_Witness ==
    /\ wpc = "done"
    /\ Len(hdrOffs) = 3
    /\ arch[1].filesize = 8195
    /\ arch[2].filesize = 16387
    /\ Len(walkFiles) = 2
    /\ Len(symRows) = 1

\* C7: as long as every call has succeeded, pos equals the number of bytes
\* consumed from the stream.
C7_PosIsBytesConsumed == wpc # "error" => pos = off

\* C7 witness: a walk over two members that has read a body with
\* read_entry_data and stored its symbol, has used its short read in
\* skip_entry_data, and has reached the trailer.
C7_Witness ==
    /\ wpc = "done"
    /\ Len(walkFiles) = 2
    /\ arch[1].filesize = 16387
    /\ Len(symRows) = 1
    /\ arch[2].filesize = 8195
    /\ shortLeft = 0

\* C8: read_entry_start returns None exactly when the entry's name is
\* "TRAILER!!!", and then has read nothing past the name's padding; a walk
\* whose first entry is the trailer ends at once and writes no File row.
C8_NoneIffTrailer ==
    /\ (last.op = "read_entry_start" /\ last.ok) =>
          LET k == Len(hdrOffs)
          IN /\ (wpc = "done") = (arch[k].name = TRAILER)
             /\ wpc = "done" => off = BodyOff(arch, k)
    /\ (arch[1].name = TRAILER /\ wpc # "start") =>
          /\ wpc = "done"
          /\ walkFiles = <<>>
          /\ Len(hdrOffs) = 1

\* C8 witness: a stream whose first entry is a trailer with a body of four
\* bytes; the walk is over.
C8_Witness ==
    /\ wpc = "done"
    /\ arch[1].name = TRAILER
    /\ arch[1].filesize = 4
    /\ off = BodyOff(arch, 1)

\* C9: for a non-trailer entry read_entry_start has consumed header, name and
\* name padding, and returns the entry's name and size with a peek that holds
\* exactly the first min(c_filesize, 8192) bytes of the body; it has consumed
\* nothing after the peek.
C9_PeekIsBodyPrefix ==
    (last.op = "read_entry_start" /\ last.ok /\ wpc = "entry") =>
        LET k == Len(hdrOffs)
            n == IF arch[k].filesize < 8192 THEN arch[k].filesize ELSE 8192
        IN /\ last.off0 = HeaderOff(arch, k)
           /\ entry.name = arch[k].name
           /\ entry.header.c_filesize = arch[k].filesize
           /\ WindowSlice(entry.peek) = Src(BodyOff(arch, k), n)
           /\ off = BodyOff(arch, k) + n

\* C9 witness: the second entry of a stream is longer than a peek and
\* read_entry_start has just returned it.
C9_Witness ==
    /\ wpc = "entry"
    /\ last.op = "read_entry_start"
    /\ Len(hdrOffs) = 2
    /\ entry.header.c_filesize = 16387
    /\ VLen(WindowSlice(entry.peek)) = 8192

\* C10: read_entry_data returns exactly the c_filesize bytes of the entry's
\* body and advances pos by c_filesize minus the length of the peek.
C10_DataIsBody ==
    (last.op = "read_entry_data" /\ last.ok) =>
        LET k == Len(hdrOffs)
            size == arch[k].filesize
            peek_len == IF size < 8192 THEN size ELSE 8192
        IN /\ VLen(data) = size
           /\ data = Src(BodyOff(arch, k), size)
           /\ pos = last.pos0 + (size - peek_len)
           /\ off = BodyOff(arch, k) + size

\* C10 witness: read_entry_data has returned a body of 16387 bytes, of which
\* 8192 came from the peek.
C10_Witness ==
    /\ last.op = "read_entry_data"
    /\ last.ok
    /\ wpc = "end"
    /\ VLen(data) = 16387
    /\ pos = last.pos0 + 8195

\* C11: skip_entry_data consumes exactly c_filesize minus the peek length
\* bytes of the source, whatever partial reads the source answers with: while
\* it runs the source never stands beyond the end of the body, and when it has
\* returned the source stands at the end of the body, before the padding, and
\* pos has advanced by the same amount.
C11_SkipConsumesRemainder ==
    last.op = "skip_entry_data" /\ wpc \in {"skip", "end"} =>
        LET k == entry.header.k
            c_filesize == arch[k].filesize
            peek_len == Min(c_filesize, PEEK_SIZE)
            bodyEnd == BodyOff(arch, k) + c_filesize
        IN /\ off <= bodyEnd
           /\ off - last.off0 = pos - last.pos0
           /\ wpc = "end" =>
                /\ off = bodyEnd
                /\ off - last.off0 = c_filesize - peek_len
                /\ pos = last.pos0 + (c_filesize - peek_len)

\* skip_entry_data has returned after discarding 8195 bytes beyond the peek,
\* one of its reads having been a partial one
C11_Witness ==
    /\ wpc = "end"
    /\ last.op = "skip_entry_data"
    /\ entry.header.c_filesize = 16387
    /\ shortLeft < MaxShortReads
    /\ pos = last.pos0 + 8195

\* C12: the padding consumed after a name (read_name) and after a body
\* (read_entry_end) is the number in 0..3 that brings the archive-relative pos
\* to a multiple of 4, so pos is a multiple of 4 after each of them.
C12_PaddingAlignsPos ==
    /\ last.op = "read_entry_end" /\ last.ok =>
         /\ pos % 4 = 0
         /\ pos - last.pos0 \in 0..3
    /\ last.op = "read_entry_start" /\ last.ok /\ wpc \in {"entry", "done"} =>
         LET k == EntryAt(last.off0)
             nameEnd == last.pos0 + HEADER_SIZE + Len(arch[k].name) + 1
             afterName == IF wpc = "entry" THEN pos - WindowLen(entry.peek) ELSE pos
         IN /\ afterName % 4 = 0
            /\ afterName - nameEnd \in 0..3

\* read_entry_end has consumed two bytes of padding after a body of 18 bytes
\* whose entry did not start at the start of the archive
C12_Witness ==
    /\ last.op = "read_entry_end"
    /\ last.ok
    /\ last.pos0 % 4 = 2
    /\ pos = last.pos0 + 2
    /\ Len(hdrOffs) = 2

\* C13: read_name with c_namesize = n >= 1 returns the first n - 1 bytes of the
\* name field, the NUL dropped; c_namesize = 1 yields the empty name, and the
\* entry with the empty name is returned as an entry, not as the trailer.
C13_NameDropsNul ==
    last.op = "read_entry_start" /\ last.ok =>
        LET k == EntryAt(last.off0)
        IN /\ wpc = "entry" =>
               /\ entry.name = arch[k].name
               /\ Len(entry.name) = entry.header.c_namesize - 1
           /\ arch[k].name = <<>> => wpc = "entry" /\ entry.name = <<>>

\* read_entry_start has returned an entry whose c_namesize is 1
C13_Witness ==
    /\ last.op = "read_entry_start"
    /\ last.ok
    /\ wpc = "entry"
    /\ entry.header.c_namesize = 1
    /\ entry.name = <<>>

\* C14: in every Store state reached by calls of persist_elf_symbols (and of
\* the other Store functions), successful or failed, every ElfSymbol row's
\* name_id is the id of a String row, and that row holds the symbol's name.
C14_NoDanglingNameId ==
    \A i \in 1..Len(symRows) :
        /\ symRows[i].name_id \in 1..Len(strRows)
        /\ strRows[symRows[i].name_id] = symRows[i].name

\* symbols of two names are stored and the last call of persist_elf_symbols
\* failed after its call of persist_strings
C14_Witness ==
    /\ Len(symRows) >= 2
    /\ \E i, j \in 1..Len(symRows) : symRows[i].name_id # symRows[j].name_id
    /\ dbLast.op = "persist_elf_symbols"
    /\ ~dbLast.ok
    /\ dbLast.ps.reached

\* C15: no two String rows have the same name, whatever calls were made and
\* however often a name occurs in a symbol list or in several lists.
C15_StringNamesUnique ==
    \A i, j \in 1..Len(strRows) : strRows[i] = strRows[j] => i = j

\* a symbol list that names puts twice was persisted when puts was already
\* stored, and a symbol row of it refers to the one row of puts
C15_Witness ==
    /\ dbLast.op = "persist_elf_symbols"
    /\ dbLast.ok
    /\ dbLast.symbols = <<"puts", "puts">>
    /\ dbCalls >= 2
    /\ Len(symRows) >= 3
    /\ Cardinality({i \in 1..Len(strRows) : strRows[i] = "puts"}) = 1

\* C16: when the call of persist_strings inside persist_elf_symbols returns a
\* map, its keys are exactly the names it was given and each name maps to the
\* id of the String row with that name; and persist_strings fails whenever the
\* second lookup pass leaves a name missing.
C16_PersistStringsMapsEveryName ==
    dbLast.op = "persist_elf_symbols" /\ dbLast.ps.reached =>
        LET names == NamesOf(dbLast.symbols)
            ps == dbLast.ps
        IN /\ ps.ok =>
                /\ DOMAIN ps.mappings = names
                /\ \A n \in names :
                     /\ ps.mappings[n] \in 1..Len(ps.table)
                     /\ ps.table[ps.mappings[n]] = n
           /\ \A left \in (SUBSET names) \ {{}} :
                ~SecondPassResult([ok |-> TRUE, strings |-> left,
                                   mappings |-> [n \in names \ left |-> 1]]).ok

\* persist_strings returned a map for two names, one of which was stored
\* before the call and one of which it inserted
C16_Witness ==
    /\ dbLast.op = "persist_elf_symbols"
    /\ dbLast.ps.reached
    /\ dbLast.ps.ok
    /\ DOMAIN dbLast.ps.mappings = {"puts", "free"}
    /\ dbCalls >= 2
    /\ Len(dbLast.ps.table) = 2
    /\ Len(symRows) >= 3

\* C17: a call of persist_elf_symbols that fails, at whichever step, leaves
\* the files, strings and elf_symbols tables as they were before the call.
C17_FailedCallLeavesNoRows ==
    [][(dbCalls' = dbCalls + 1 /\ dbLast'.op = "persist_elf_symbols" /\ ~dbLast'.ok)
         => UNCHANGED <<fileRows, strRows, symRows>>]_vars

\* a call of persist_elf_symbols failed after its persist_strings had inserted
\* a String row, and the row is gone
C17_Witness ==
    /\ dbLast.op = "persist_elf_symbols"
    /\ ~dbLast.ok
    /\ dbLast.ps.reached
    /\ dbLast.ps.ok
    /\ Len(dbLast.ps.table) > Len(strRows)

\* C18: a successful persist_file, persist_package or persist_repo has inserted
\* exactly one row and returns the id of that row.
C18_ReturnsIdOfNewRow ==
    dbLast.op \in {"persist_file", "persist_package", "persist_repo"} /\ dbLast.ok =>
        LET table == CASE dbLast.op = "persist_file" -> fileRows
                       [] dbLast.op = "persist_package" -> pkgRows
                       [] OTHER -> repoRows
        IN /\ Len(table) = dbLast.rows0 + 1
           /\ dbLast.rowid = dbLast.rows0 + 1

\* C19: rows are inserted in the order Repo, Package, File, String, ElfSymbol:
\* in every reachable Store state each Package.repo_id is the id of a Repo row,
\* each File.package_id the id of a Package row, each ElfSymbol.file_id the id
\* of a File row and each ElfSymbol.name_id the id of a String row, so the row
\* referred to was there when the referring row was inserted.
C19_ReferencedRowsExist ==
    /\ \A i \in 1..Len(pkgRows) : pkgRows[i].repo_id \in 1..Len(repoRows)
    /\ \A i \in 1..Len(fileRows) : fileRows[i].package_id \in 1..Len(pkgRows)
    /\ \A i \in 1..Len(symRows) :
         /\ symRows[i].file_id \in 1..Len(fileRows)
         /\ symRows[i].name_id \in 1..Len(strRows)

\* two pipelines have written their Package rows, File rows and a symbol
C19_Witness ==
    /\ Len(repoRows) = 1
    /\ Len(pkgRows) >= 2
    /\ Len(fileRows) >= 2
    /\ Len(strRows) >= 1
    /\ Len(symRows) >= 1
    /\ \E i \in 1..Len(fileRows) : fileRows[i].package_id = 2

\* the Package row of pipeline p is stored
HasPackageRow(p) == pkgId[p] \in 1..Len(pkgRows) /\ pkgRows[pkgId[p]] = PackageRow(p)

\* a File row of entry e of pipeline p is stored
HasFileRow(p, e) ==
    \E i \in 1..Len(fileRows) : fileRows[i] = [package_id |-> pkgId[p], entry |-> e]

\* an ElfSymbol row of symbol j of entry e of pipeline p is stored
HasSymbolRow(p, e, j) ==
    \E i \in 1..Len(fileRows) :
        /\ fileRows[i] = [package_id |-> pkgId[p], entry |-> e]
        /\ \E k \in 1..Len(symRows) :
             symRows[k].file_id = i /\ symRows[k].name = SymName(j)

\* C20 as stated: whenever index_package has returned Ok, the Package row is
\* stored together with a File row for every entry before the trailer and an
\* ElfSymbol row for every dynamic symbol of every ELF entry; a pipeline that
\* ended in any other way has made index_repo fail.
C20_OkMeansAllRows ==
    \A p \in Packages :
        /\ ppc[p] = "ok" =>
             /\ HasPackageRow(p)
             /\ \A e \in 1..Len(PkgEntries(p)) :
                  /\ HasFileRow(p, e)
                  /\ \A j \in 1..PkgEntries(p)[e] : HasSymbolRow(p, e, j)
        /\ ppc[p] \in {"failed", "cancelled"} => result = "err"

\* C20 as amended: whenever index_package has returned Ok, the Package row is
\* stored together with a File row for every entry whose persist_file call
\* succeeded and an ElfSymbol row for every dynamic symbol whose
\* persist_elf_symbol call was made and succeeded; the calls that failed were
\* logged and skipped.  A pipeline that ended in any other way has made
\* index_repo fail.
C20_OkMeansAllRowsNotSkipped ==
    \A p \in Packages :
        /\ ppc[p] = "ok" =>
             /\ HasPackageRow(p)
             /\ \A e \in 1..Len(PkgEntries(p)) :
                  <<p, e, 0>> \notin skipped =>
                      /\ HasFileRow(p, e)
                      /\ \A j \in 1..PkgEntries(p)[e] :
                           <<p, e, j>> \notin skipped => HasSymbolRow(p, e, j)
        /\ ppc[p] \in {"failed", "cancelled"} => result = "err"

\* pipeline 1 has returned Ok although persist_file failed for its first
\* entry; its second entry has its File row
C20_Witness ==
    /\ ppc[1] = "ok"
    /\ <<1, 1, 0>> \in skipped
    /\ <<1, 2, 0>> \notin skipped
    /\ HasFileRow(1, 2)

\* C21: when persist_file fails for an entry, index_file returns the error,
\* index_package logs it and goes on to read the next entry of the same
\* package; neither the pipeline nor index_repo fails by it.
C21_FileErrorIsSkipped ==
    [][\A p \in Packages :
         (ppc[p] = "persist_file" /\ <<p, entryIdx[p], 0>> \in skipped' \ skipped)
           => /\ ppc'[p] = "read_entry"
              /\ entryIdx'[p] = entryIdx[p]
              /\ result' = result]_vars

\* persist_file failed for the first entry of package 1 and the walk is at
\* the File row of its second entry
C21_Witness ==
    /\ <<1, 1, 0>> \in skipped
    /\ ppc[1] = "persist_file"
    /\ entryIdx[1] = 2
    /\ result = "running"

\* C22: index_repo returns Ok only when every pipeline has returned Ok; as
\* soon as a pipeline fails index_repo returns an error, that of the one
\* pipeline that failed, and every other pipeline has either finished with Ok
\* before or is dropped.
C22_JoinSurfacesFirstFailure ==
    /\ result = "ok" => \A p \in Packages : ppc[p] = "ok"
    /\ (\E p \in Packages : ppc[p] = "failed") => result = "err"
    /\ (result = "err" /\ loadPc = "pipelines") =>
         /\ Cardinality({p \in Packages : ppc[p] = "failed"}) = 1
         /\ \A p \in Packages : ppc[p] \in {"failed", "cancelled", "ok", "queued"}

\* index_repo has failed with the error of one pipeline, after another
\* pipeline had finished with Ok and while a third was in flight
C22_Witness ==
    /\ result = "err"
    /\ \E p, q, r \in Packages :
         ppc[p] = "failed" /\ ppc[q] = "ok" /\ ppc[r] = "cancelled"

\* the file f has the digest the checksum names, under its algorithm
HasExpectedDigest(f, open_checksum) ==
    /\ f.state = "file"
    /\ open_checksum.tpe = "sha256"
    /\ Sha256Hex(f.bytes) = open_checksum.hexdigest

\* the bytes of the response body of the current call, decoded
DecodedResponse ==
    DecodedBody(DecoderFromHref(fargs.href).kind, XzNew, cfLast.result.chunks)

\* C23 (as claimed): fetch_file performs no HTTP fetch and leaves the local
\* file untouched exactly when the file at the decoded path exists and has
\* the expected digest; in every other case the file is re-created and
\* refilled from a fresh fetch and no error is reported.
C23_RefetchedUnlessCached ==
    fpc = "returned" =>
        LET path == DecoderFromHref(fargs.href).path
            hit == HasExpectedDigest(fsAtCall[path], fargs.open_checksum)
        IN /\ (fetched = 0 /\ files = fsAtCall) <=> hit
           /\ ~hit => /\ fetched = 1
                      /\ files[path] = FileOf(DecodedResponse)
                      /\ fres.ok

\* C23 (amended): when the file at the decoded path has the expected digest
\* fetch_file returns its path, fetches nothing and leaves the files as they
\* were.  In every other case it sets out to download: it fails without a
\* fetch when the URI is malformed (files untouched) or the file cannot be
\* created; otherwise the file is truncated and exactly one fetch is made,
\* and the call fails only when the fetch, a chunk read, the decoder or a
\* write fails, the file then holding a prefix of the decoded body.  When it
\* returns Ok after a download the file holds exactly the decoded body.  No
\* error is ever reported for the mismatch itself.
C23_CachedOrDownloadAttempted ==
    fpc = "returned" =>
        LET path == DecoderFromHref(fargs.href).path
            hit == HasExpectedDigest(fsAtCall[path], fargs.open_checksum)
            uri_ok == UriParses(UriStr(RepoUri, fargs.href))
            decoded == DecodedResponse
        IN /\ hit => fres.ok /\ fetched = 0 /\ files = fsAtCall
           /\ (~hit /\ fres.ok) => /\ fetched = 1
                                   /\ files[path] = FileOf(decoded)
                                   /\ \A q \in Paths \ {path} : files[q] = fsAtCall[q]
           /\ (~hit /\ ~fres.ok) =>
                /\ fres.err = "Malformed URI" <=> ~uri_ok
                /\ fres.err \in {"Malformed URI", "create_file_all"} =>
                       fetched = 0 /\ files = fsAtCall
                /\ fres.err \notin {"Malformed URI", "create_file_all"} =>
                       /\ fetched = 1
                       /\ files[path].state = "file"
                       /\ \E n \in 0..Len(decoded) :
                              files[path].bytes = SubSeq(decoded, 1, n)
                       /\ fres.err = "checked_fetch" => ~cfLast.result.ok
                       /\ fres.err # "checked_fetch" => cfLast.result.ok

\* a cached file with another digest has been replaced by the body of one
\* fetch and fetch_file has returned Ok
C23_Witness ==
    /\ fpc = "returned"
    /\ fres.ok
    /\ fsAtCall[fres.path] = FileOf(<<"b">>)
    /\ fargs.open_checksum = [tpe |-> "sha256", hexdigest |-> Sha256Hex(<<"a">>)]
    /\ fetched = 1
    /\ files[fres.path] = FileOf(<<"a">>)

\* C24: whenever fetch_file returns Ok(path), the file at path has the
\* digest open_checksum names, whether the cached copy was reused or the
\* file was just downloaded.
C24_OkPathHasExpectedDigest ==
    (fpc = "returned" /\ fres.ok) =>
        HasExpectedDigest(files[fres.path], fargs.open_checksum)

\* C28: checked_fetch returns a response only for a 2xx status; for every
\* other status it returns an error whose message has the URI and the
\* status as its arguments, and no body reaches the caller: decode_response
\* is not entered and nothing is written to the file.
C28_ResponseOnlyFor2xx ==
    cfLast.called =>
        LET r == cfLast.result
            success == cfLast.status \in 200..299
        IN /\ r.ok => cfLast.answered /\ success
           /\ (cfLast.answered /\ success) => r.ok
           /\ (cfLast.answered /\ ~success) =>
                /\ ~r.ok
                /\ r.msg.args = [uri |-> UriStr(RepoUri, fargs.href),
                                 status |-> cfLast.status]
                /\ r.chunks = <<>>
                /\ bodyLeft = <<>>
                /\ fpc = "returned"
                /\ ~fres.ok
                /\ files[DecoderFromHref(fargs.href).path] = FileOf(<<>>)

\* the server has answered 404 and checked_fetch has returned the error
C28_Witness ==
    /\ cfLast.called
    /\ cfLast.answered
    /\ cfLast.status = 404
    /\ fpc = "returned"

\* C25: read from the start of the source, read_lead advances pos by 96;
\* every read_full_header call finds its header at the first multiple of 8
\* at or after the pos it was given, which is where the structure before it
\* ended, and advances pos by the padding plus 16 + 16*C + S for the C index
\* entries and the S store bytes it read; after both calls pos is the number
\* of bytes taken from the source.
C25_PosTracksTheStream ==
    /\ rpc \in {"header", "index", "done"} => hdrLog # <<>> \/ rpos = 96
    /\ \A i \in 1..Len(hdrLog) :
         LET h == hdrLog[i]
             padding == h.start - h.pos0
         IN /\ h.pos0 = IF i = 1 THEN 96 ELSE hdrLog[i - 1].pos1
            /\ h.start % 8 = 0
            /\ padding \in 0..7
            /\ (i < Len(hdrLog) \/ rpc = "done") =>
                   /\ h.pos1 = h.pos0 + padding + 16 + 16 * h.entries_read + h.store_read
    /\ rpc = "done" => /\ Len(hdrLog) = 2
                       /\ rpos = hdrLog[2].pos1
                       /\ rpos = rconsumed

\* both headers have been read and the second one was padded: the first
\* header has one index entry and a store of one byte
C25_Witness ==
    /\ rpc = "done"
    /\ hdrLog[1].entries_read = 1
    /\ hdrLog[1].store_read = 1
    /\ hdrLog[2].pos0 = 129
    /\ hdrLog[2].start = 136
    /\ hdrLog[2].entries_read = 2

\* C26: get_string_tag(tag, default) returns default when the tag is not
\* in the index; when it is, the call fails unless the entry has type 6 and
\* its offset lies inside the store, and otherwise the result is made of the
\* bytes from store[offset] up to the next zero byte (or the end of the
\* store), which are returned when they are UTF-8.
C26_StringTagLookup ==
    tagLast.called =>
        LET r == tagLast.result
            tag == tagLast.tag
        IN IF tag \notin DOMAIN indexEntries
           THEN r.ok /\ r.value = tagLast.default
           ELSE LET e == indexEntries[tag]
                IN IF e.tpe # 6 \/ e.offset >= Len(rstore)
                   THEN ~r.ok
                   ELSE \E n \in 0..(Len(rstore) - e.offset) :
                        LET bytes == SubSeq(rstore, e.offset + 1, e.offset + n)
                        IN /\ \A k \in 1..n : bytes[k] # 0
                           /\ e.offset + n = Len(rstore) \/ rstore[e.offset + n + 1] = 0
                           /\ IF Utf8Valid(bytes)
                              THEN r.ok /\ r.value = bytes
                              ELSE ~r.ok

\* the payload coding tag is a string entry at offset 1 of the store
\* <<0, 65>>: the lookup has returned "A"
C26_Witness ==
    /\ tagLast.called
    /\ tagLast.tag = 1125
    /\ 1125 \in DOMAIN indexEntries
    /\ indexEntries[1125] = [tpe |-> 6, offset |-> 1]
    /\ rstore = <<0, 65>>
    /\ tagLast.result.ok
    /\ tagLast.result.value = <<65>>

\* C27: decode_chunk returns Ok only when the decoder has consumed exactly
\* chunk.len() bytes since the call; in every iteration the slice given to
\* the decoder starts at the first byte of the chunk it has not consumed and
\* ends with the chunk, so no byte is fed twice or skipped; and unless a
\* write failed the file holds every output byte the decoder has produced,
\* in the order produced.
C27_ChunkConsumedOutputWritten ==
    /\ xpc = "returned" => xzTotalIn = inAtCall + chunkLen
    /\ xpc \in {"loop", "returned"} =>
         /\ feed.fed => /\ feed.offset = feed.in_before - inAtCall
                        /\ feed.in_after = xzTotalIn
                        /\ feed.in_after <= inAtCall + chunkLen
         /\ xfile = [k \in 1..xzTotalOut |-> k]

\* a chunk of two bytes went through the decoder in more than one
\* iteration, the last one fed from the second byte, and three output bytes
\* are in the file
C27_Witness ==
    /\ xpc = "returned"
    /\ chunkLen = 2
    /\ feed.fed /\ feed.offset = 1 /\ feed.in_before = 1 /\ feed.in_after = 2
    /\ xfile = <<1, 2, 3>>

\* the wildcard matches the name as a glob: * is any run of characters, ?
\* is any one character, every other character matches only itself
RECURSIVE GlobMatch(_, _)
GlobMatch(w, name) ==
    IF w = <<>> THEN name = <<>>
    ELSE IF Head(w) = "*"
    THEN \E k \in 0..Len(name) : GlobMatch(Tail(w), SubSeq(name, k + 1, Len(name)))
    ELSE IF name = <<>> THEN FALSE
    ELSE IF Head(w) = "?" THEN GlobMatch(Tail(w), Tail(name))
    ELSE Head(w) = Head(name) /\ GlobMatch(Tail(w), Tail(name))

\* C29: get_packages returns a package exactly when its arch passes the
\* arches filter (if there is one) and, if there are requirements, some
\* wildcard matches the name of one of its required capabilities as a glob.
C29_PackagesFiltered ==
    (gpLast.called /\ gpLast.result.ok) =>
        gpLast.result.packages =
             {p \in catalog :
                /\ gpLast.arches.some =>
                     \E i \in DOMAIN gpLast.arches.list : p.arch = gpLast.arches.list[i]
                /\ gpLast.requirements.some =>
                     \E name \in p.requires : \E i \in DOMAIN gpLast.requirements.list :
                         GlobMatch(gpLast.requirements.list[i], name)}

\* the characters like_from_wildcard escapes
Escaped == {"%", "_", "\\"}

\* C30: like_from_wildcard translates character by character: the image of
\* the k-th character stands after the images of the characters before it,
\* it is % for *, _ for ?, the character behind one backslash for %, _ and
\* \, and the character itself otherwise; so a string with none of the five
\* characters is left as it is and the pattern is longer than the wildcard
\* by one character for each %, _ and \.
C30_LikeFromWildcardPerCharacter ==
    gpLast.called =>
        \A i \in DOMAIN gpLast.requirements.list :
            LET w == gpLast.requirements.list[i]
                pat == gpLast.patterns[i]
                At(k) == k + Cardinality({j \in 1..(k - 1) : w[j] \in Escaped})
            IN /\ Len(pat) = Len(w) + Cardinality({j \in 1..Len(w) : w[j] \in Escaped})
               /\ \A k \in 1..Len(w) :
                    CASE w[k] = "*" -> pat[At(k)] = "%"
                      [] w[k] = "?" -> pat[At(k)] = "_"
                      [] w[k] \in Escaped -> pat[At(k)] = "\\" /\ pat[At(k) + 1] = w[k]
                      [] OTHER -> pat[At(k)] = w[k]
               /\ (\A k \in 1..Len(w) : w[k] \notin Escaped \cup {"*", "?"}) => pat = w

\* get_packages was called with the requirement "%?": the pattern is \%_
C30_Witness ==
    /\ gpLast.called
    /\ gpLast.requirements = Some(<<<<"%", "?">>>>)
    /\ gpLast.patterns = <<<<"\\", "%", "_">>>>

\* C31: a persist_repo call with a URI that is stored fails and leaves the
\* repos table as it was, whatever primary_db it was given; no persist_repo
\* call changes a row that was there before it.
C31_DuplicateUriFails ==
    [][(dbCalls' = dbCalls + 1 /\ dbLast'.op = "persist_repo") =>
         /\ (\E i \in 1..Len(repoRows) : repoRows[i].uri = dbLast'.uri) =>
                ~dbLast'.ok /\ repoRows' = repoRows
         /\ Len(repoRows') >= Len(repoRows)
         /\ \A i \in 1..Len(repoRows) : repoRows'[i] = repoRows[i]]_vars

\* persist_repo was called for "u1" with another primary_db than the one
\* stored and has failed; the one row of "u1" is as it was
C31_Witness ==
    /\ dbLast.op = "persist_repo"
    /\ ~dbLast.ok
    /\ dbLast.uri = "u1"
    /\ dbLast.primary_db = "d2"
    /\ repoRows = <<[uri |-> "u1", primary_db |-> "d1"]>>


\* a <data> element with each required part once, a digest in every
\* checksum and numbers where numbers belong
WellFormedData(e) ==
    /\ Len(AttrsNamed(e, "type")) = 1
    /\ \A name \in {"checksum", "location", "timestamp", "size"} :
           Len(ChildrenNamed(e, name)) = 1
    /\ \A name \in {"checksum", "open-checksum"} :
           \A k \in 1..Len(ChildrenNamed(e, name)) :
               ChildrenNamed(e, name)[k].text # <<>>
    /\ \A name \in {"timestamp", "size", "open-size"} :
           \A k \in 1..Len(ChildrenNamed(e, name)) :
               ParseI64(ChildrenNamed(e, name)[k].text).ok

WellFormedRepomd(root) ==
    /\ Len(ChildrenNamed(root, "revision")) = 1
    /\ ChildrenNamed(root, "data") # <<>>
    /\ \A i \in 1..Len(ChildrenNamed(root, "data")) :
           WellFormedData(ChildrenNamed(root, "data")[i])

LacksRequired(root) ==
    \/ ChildrenNamed(root, "revision") = <<>>
    \/ ChildrenNamed(root, "data") = <<>>
    \/ \E i \in 1..Len(ChildrenNamed(root, "data")) :
           \/ AttrsNamed(ChildrenNamed(root, "data")[i], "type") = <<>>
           \/ \E name \in {"checksum", "location", "timestamp", "size"} :
                  ChildrenNamed(ChildrenNamed(root, "data")[i], name) = <<>>

\* C32: Document::parse of a well-formed repomd document returns its
\* revision and its <data> entries in the order of the document, each with
\* its type, checksum (type and hexdigest), location href, timestamp and
\* size, and with open-checksum and open-size present exactly when the
\* element is present; a document that lacks a required element fails to
\* parse.
C32_ParseReturnsTheDocument ==
    parseLast.called =>
        LET found == ChildrenNamed(repomdXml, "data")
            doc == parseLast.result.value
        IN /\ LacksRequired(repomdXml) => ~parseLast.result.ok
           /\ WellFormedRepomd(repomdXml) =>
                  /\ parseLast.result.ok
                  /\ doc.revision = 154
                  /\ Len(doc.data) = Len(found)
                  /\ \A i \in 1..Len(found) :
                         LET e == found[i]
                             d == doc.data[i]
                             oc == ChildrenNamed(e, "open-checksum")
                             os == ChildrenNamed(e, "open-size")
                         IN /\ d.tpe = e.attrs[1][2]
                            /\ d.checksum = [tpe |-> "sha256", hexdigest |-> <<"9", "1">>]
                            /\ d.location = [href |-> <<"p">>]
                            /\ d.timestamp = 15
                            /\ d.size = 16
                            /\ d.open_checksum.some <=> oc # <<>>
                            /\ oc # <<>> =>
                                   d.open_checksum.value
                                       = [tpe |-> "sha256", hexdigest |-> <<"e", "4">>]
                            /\ d.open_size.some <=> os # <<>>
                            /\ os # <<>> => d.open_size.value = 0 - 4

C32_Witness ==
    /\ parseLast.called
    /\ parseLast.result.ok
    /\ Len(parseLast.result.value.data) = 2
    /\ parseLast.result.value.data[1].tpe = "primary_db"
    /\ parseLast.result.value.data[2].tpe = "primary"
    /\ parseLast.result.value.data[1].open_checksum.some
    /\ ~parseLast.result.value.data[2].open_checksum.some
    /\ Len(ChildrenNamed(ChildrenNamed(repomdXml, "data")[1], "database_version")) = 1


\* what every step of the walk does while its entry has c_filesize = 0: the
\* peek is empty, so the ELF check of index_file has no 16 bytes, fails
\* before it compares a magic number, and the entry is not taken for an ELF
\* file; skip_entry_data is called and reads nothing, read_entry_data is not
\* called; no String row and no ElfSymbol row is written; and a File row is
\* written at no other step than the return of skip_entry_data.
ZeroByteFileNotRead ==
    /\ strRows' = strRows
    /\ symRows' = symRows
    /\ last'.op # "read_entry_data"
    /\ wpc = "entry" =>
           /\ WindowLen(entry.peek) = 0
           /\ GoblinPeek(entry.peek) = {"peek_failed"}
           /\ wpc' = "skip"
           /\ last'.op = "skip_entry_data"
           /\ remaining' = 0
           /\ off' = off /\ pos' = pos
           /\ data' = data
           /\ walkFiles' = walkFiles
    /\ wpc = "skip" =>
           /\ wpc' = "end"
           /\ off' = off /\ pos' = pos
           /\ data' = data
    /\ wpc = "end" => walkFiles' = walkFiles

UnloadableRepomd(root) ==
    \/ ~WellFormedRepomd(root)
    \/ \A i \in 1..Len(ChildrenNamed(root, "data")) :
           ChildrenNamed(root, "data")[i].attrs # <<<<"type", "primary_db">>>>
    \/ \E i \in 1..Len(ChildrenNamed(root, "data")) :
           /\ ChildrenNamed(root, "data")[i].attrs = <<<<"type", "primary_db">>>>
           /\ ChildrenNamed(ChildrenNamed(root, "data")[i], "open-checksum") = <<>>

\* C34: any failure in loading the repomd or the primary catalog is fatal:
\* when the repomd cannot be fetched or parsed, has no primary_db entry or no
\* open-checksum, or the catalog cannot be fetched or opened, index_repo
\* returns an error, no package pipeline is ever started and no Package row
\* is written.
C34_LoadFailureIsFatal ==
    /\ loadErr # "none" <=> loadPc = "failed"
    /\ loadPc # "pipelines" =>
           /\ started = 0
           /\ pkgRows = <<>>
           /\ \A p \in Packages : ppc[p] = "queued"
    /\ loadPc = "failed" => result = "err"
    /\ UnloadableRepomd(repomdXml) => loadPc # "pipelines"
    /\ result = "ok" => loadPc = "pipelines"

\* index_repo has failed for a repomd whose primary_db entry has no
\* open-checksum, after the Repo row was written
C34_Witness ==
    /\ loadErr = "missing_open_checksum"
    /\ result = "err"
    /\ Len(repoRows) = 1
    /\ started = 0
    /\ pkgRows = <<>>


\* C35: skip_entry_data terminates for every source: once it is called it
\* returns or fails, also when the source is at end of file before the body
\* is complete.
C35_SkipTerminates == (wpc = "skip") ~> (wpc # "skip")

\* skip_entry_data is in its loop with the source at end of file and the body
\* not complete: the read returns 0 and the loop goes round
C35_AtEndOfFile ==
    /\ wpc = "skip"
    /\ remaining > 0
    /\ off = slen
    /\ ReadSizes(off, WindowLen(SkipWindow(remaining, entry.peek))) = {0}


\* C36: blocking(f) executes f exactly once and yields f's result, however
\* often its future is polled and also when the blocking-thread facility has
\* answered not-ready on an earlier poll.
C36_RunsOnceAndYieldsResult ==
    /\ fRuns <= 1
    /\ (onPool /\ bpc \notin {"idle", "pending"}) =>
           /\ bpc = "returned"
           /\ fRuns = 1
           /\ bres.ok = fResult.ok
           /\ bres.value = fResult.value

\* the second poll after a not-ready answer: f was taken and dropped by the
\* first poll, unwrap() finds None and panics, f has never run
C36_PanickedOnSecondPoll ==
    /\ bpc = "panicked"
    /\ onPool
    /\ polls = 2
    /\ fRuns = 0

\* the locks a pipeline holds
HoldsStore(p) == lpc[p] \in {"persist", "metrics_held", "store_held"}
HoldsMetrics(p) == lpc[p] = "metrics_held"
HoldsHttp(p) == lpc[p] = "http_get"
HoldsIo(p) == lpc[p] = "io_held"

\* no pipeline waits for a lock while it holds another one, but for the
\* metrics lock, which is only ever taken inside the Store lock by a task
\* that then waits for nothing else; and every permit that is not held
\* is in its semaphore
LockOrder ==
    /\ \A p \in Packages :
         /\ (connOwner = p) <=> HoldsStore(p)
         /\ (metricsOwner = p) <=> HoldsMetrics(p)
         /\ HoldsMetrics(p) => HoldsStore(p)
         /\ lpc[p] \in {"http_acquire", "io_acquire", "store_lock"} =>
                ~(HoldsHttp(p) \/ HoldsIo(p) \/ HoldsStore(p) \/ HoldsMetrics(p))
         /\ (HoldsHttp(p) \/ HoldsIo(p)) => ~HoldsStore(p)
    /\ metricsOwner = Monitor => monPc = "held"
    /\ httpAvail + Cardinality({p \in Packages : HoldsHttp(p)}) = jobs
    /\ ioAvail + Cardinality({p \in Packages : HoldsIo(p)}) = jobs

\* C37 (as claimed): with jobs >= 1 and fetches that complete every started
\* pipeline finishes or fails in the end, and the locks are taken in an
\* order that allows no cycle of tasks that wait for each other.  A
\* pipeline that has started is never queued again and one that has ended
\* stays as it ended, so "every started pipeline ends" is "from some point
\* on every package is either not started or ended".
C37_EveryPipelineFinishesOrFails ==
    /\ []LockOrder
    /\ <>[](\A p \in Packages : lpc[p] \in {"queued", "ok", "failed"})

\* C37 (amended): with jobs >= 1 and fetches that complete every started
\* pipeline finishes, fails, or is dropped where it is suspended because
\* another pipeline has failed and ended the run, its permits given back;
\* the locks are taken in an order that allows no cycle of tasks that wait
\* for each other, so no pipeline waits for ever.
C37_EveryPipelineEnds ==
    /\ []LockOrder
    /\ <>[](\A p \in Packages : lpc[p] \in {"queued", "ok", "failed", "cancelled"})

\* with two jobs, the first pipeline has failed while the second one held
\* the HTTP permit: the second one was dropped, both permits are back and
\* the third package was never started
C37_Witness ==
    /\ jobs = 2
    /\ lpc = <<"failed", "cancelled", "queued">>
    /\ httpAvail = 2
    /\ ioAvail = 2
    /\ connOwner = 0


\* C38: the loop of decode_chunk terminates for every chunk: once
\* decode_chunk is called it returns or fails, also for a chunk with bytes
\* after the end of the xz stream.
C38_DecodeChunkTerminates == (xpc = "loop") ~> (xpc # "loop")

\* decode_chunk is in its loop with bytes of the chunk left and the stream
\* ended: process_vec takes nothing and the loop goes round
C38_BytesAfterStreamEnd ==
    /\ xpc = "loop"
    /\ xzEnded
    /\ xzTotalIn < endIn
    /\ ProcessVec(endIn - xzTotalIn, XzBufCapacity, xzTotalOut, xzEnded)
           = {[ok |-> TRUE, n_in |-> 0, n_out |-> 0, ended |-> TRUE]}

====
